---- MODULE Spec2Model ----
(***************************************************************************)
(* RgEdt: a filtered view of the Windows registry.                         *)
(*                                                                         *)
(* The model covers rgedt/model.py (Model: path normalisation, path        *)
(* reduction, tree building), rgedt/common.py (RegistryKey, RegistryValue) *)
(* and the registry store as rgedt/tests/winreg_mock.py implements it.     *)
(*                                                                         *)
(* Strings are TLA+ strings; a character is a string of length one.        *)
(***************************************************************************)
EXTENDS Integers, Sequences, FiniteSets, TLC

(***************************************************************************)
(* Bounds of the model.                                                    *)
(***************************************************************************)
\* longest list of key paths handed to get_registry_tree
MaxPaths == 2
\* longest list of key paths handed to _remove_contained_paths on its own
MaxReducePaths == 2

(***************************************************************************)
(* Python str primitives.                                                  *)
(***************************************************************************)
\* common.py: REGISTRY_PATH_SEPARATOR
REGISTRY_PATH_SEPARATOR == "\\"

\* The characters the model's strings are made of, in code point order
\* ('.' 46, '0'-'9', 'A'-'Z', '\' 92, '_' 95, 'a'-'z').
Alphabet == ".0123456789ABCDEFGHIJKLMNOPQRSTUVWXYZ\\_abcdefghijklmnopqrstuvwxyz"

CharAt(s, i) == SubSeq(s, i, i)

\* Position of a character in code point order (str comparison compares
\* code points, and only their order matters).
Ord(c) == CHOOSE i \in 1..Len(Alphabet) : CharAt(Alphabet, i) = c

\* the upper case letters and, at the same positions, their lower case
UpperCase == "ABCDEFGHIJKLMNOPQRSTUVWXYZ"
LowerCase == "abcdefghijklmnopqrstuvwxyz"

\* str.lower() on one character: 'A'-'Z' map to 'a'-'z', the rest is unchanged.
LowerChar(c) ==
    IF \E i \in 1..Len(UpperCase) : CharAt(UpperCase, i) = c
    THEN CharAt(LowerCase, CHOOSE i \in 1..Len(UpperCase) : CharAt(UpperCase, i) = c)
    ELSE c

RECURSIVE Lower(_)
\* str.lower()
Lower(s) == IF Len(s) = 0 THEN "" ELSE LowerChar(CharAt(s, 1)) \o Lower(Tail(s))

\* str.startswith(prefix)
StartsWith(s, prefix) ==
    /\ Len(prefix) <= Len(s)
    /\ SubSeq(s, 1, Len(prefix)) = prefix

RECURSIVE Replace(_, _, _)
\* str.replace(old, new): every non-overlapping occurrence, left to right
Replace(s, old, new) ==
    IF Len(s) = 0 THEN ""
    ELSE IF StartsWith(s, old)
         THEN new \o Replace(SubSeq(s, Len(old) + 1, Len(s)), old, new)
         ELSE CharAt(s, 1) \o Replace(Tail(s), old, new)

RECURSIVE RStrip(_, _)
\* str.rstrip(c) for a single character c
RStrip(s, c) ==
    IF Len(s) > 0 /\ CharAt(s, Len(s)) = c
    THEN RStrip(SubSeq(s, 1, Len(s) - 1), c)
    ELSE s

RECURSIVE SplitFrom(_, _, _)
\* helper of Split: the pieces of s after position i, cur being the piece
\* collected so far
SplitFrom(s, sep, cur) ==
    IF Len(s) = 0 THEN <<cur>>
    ELSE IF CharAt(s, 1) = sep
         THEN <<cur>> \o SplitFrom(Tail(s), sep, "")
         ELSE SplitFrom(Tail(s), sep, cur \o CharAt(s, 1))

\* str.split(sep) for a single character sep: always at least one piece
Split(s, sep) == SplitFrom(s, sep, "")

RECURSIVE Join(_, _)
\* sep.join(parts)
Join(parts, sep) ==
    IF Len(parts) = 0 THEN ""
    ELSE IF Len(parts) = 1 THEN parts[1]
         ELSE parts[1] \o sep \o Join(Tail(parts), sep)

RECURSIVE StrLess(_, _)
\* a < b on str: lexicographic by code point, a proper prefix is smaller
StrLess(a, b) ==
    IF Len(b) = 0 THEN FALSE
    ELSE IF Len(a) = 0 THEN TRUE
    ELSE IF CharAt(a, 1) = CharAt(b, 1) THEN StrLess(Tail(a), Tail(b))
    ELSE Ord(CharAt(a, 1)) < Ord(CharAt(b, 1))

RECURSIVE Insert(_, _)
\* helper of Sorted: x placed before the first element greater than x
Insert(x, l) ==
    IF Len(l) = 0 THEN <<x>>
    ELSE IF StrLess(x, l[1]) THEN <<x>> \o l
         ELSE <<l[1]>> \o Insert(x, Tail(l))

RECURSIVE Sorted(_)
\* sorted(list of str)
Sorted(l) == IF Len(l) = 0 THEN <<>> ELSE Insert(l[Len(l)], Sorted(SubSeq(l, 1, Len(l) - 1)))

(***************************************************************************)
(* Model: path normalisation and reduction (model.py).                     *)
(***************************************************************************)
\* Model._ROOT_KEY_SHORT: the keys in dictionary order ...
ROOT_KEY_SHORT_KEYS == <<"HKCR", "HKCU", "HKLM", "HKU", "HKCC">>

\* ... and the hive name of each key
ROOT_KEY_SHORT(k) ==
    CASE k = "HKCR" -> "HKEY_CLASSES_ROOT"
      [] k = "HKCU" -> "HKEY_CURRENT_USER"
      [] k = "HKLM" -> "HKEY_LOCAL_MACHINE"
      [] k = "HKU"  -> "HKEY_USERS"
      [] k = "HKCC" -> "HKEY_CURRENT_CONFIG"

IsRootKeyShort(k) == \E i \in 1..Len(ROOT_KEY_SHORT_KEYS) : ROOT_KEY_SHORT_KEYS[i] = k

\* Model._COMPUTER_ROOT_STR
COMPUTER_ROOT_STR == "Computer"

\* Python's None, and a str, as the value of a regex group
None == [some |-> FALSE, v |-> ""]
Some(s) == [some |-> TRUE, v |-> s]

\* Model._ROOT_KEY_SHORT_REGEX = "^(HKCR)|^(HKCU)|^(HKLM)|^(HKU)|^(HKCC)":
\* the match at the start of s, as the number of the alternative that matched
\* (0: no match).  Alternative i is capture group i; the groups of the other
\* alternatives are None.
ROOT_KEY_SHORT_REGEX_match(s) ==
    IF \E i \in 1..Len(ROOT_KEY_SHORT_KEYS) : StartsWith(s, ROOT_KEY_SHORT_KEYS[i])
    THEN CHOOSE i \in 1..Len(ROOT_KEY_SHORT_KEYS) :
            /\ StartsWith(s, ROOT_KEY_SHORT_KEYS[i])
            /\ \A j \in 1..(i - 1) : ~StartsWith(s, ROOT_KEY_SHORT_KEYS[j])
    ELSE 0

\* match.group(g) of a match of alternative alt
MatchGroup(alt, g) == IF alt = g THEN Some(ROOT_KEY_SHORT_KEYS[alt]) ELSE None

\* _remove_contained_paths.expand_root_key:
\*   cls._ROOT_KEY_SHORT.get(match.group(1), match.group(1))
expand_root_key(alt) ==
    LET g == MatchGroup(alt, 1)
    IN  IF g.some /\ IsRootKeyShort(g.v) THEN Some(ROOT_KEY_SHORT(g.v)) ELSE g

\* _ROOT_KEY_SHORT_REGEX.sub(expand_root_key, s): the pattern is anchored, so
\* it matches at most once, at the start; re.sub takes a replacement of None
\* as the empty string.
ROOT_KEY_SHORT_REGEX_sub(s) ==
    LET alt == ROOT_KEY_SHORT_REGEX_match(s)
    IN  IF alt = 0 THEN s
        ELSE LET repl == expand_root_key(alt)
                 rest == SubSeq(s, Len(ROOT_KEY_SHORT_KEYS[alt]) + 1, Len(s))
             IN  (IF repl.some THEN repl.v ELSE "") \o rest

\* Model._normalize_key_string
normalize_key_string(key) ==
    LET prefix == COMPUTER_ROOT_STR \o REGISTRY_PATH_SEPARATOR
    IN  IF StartsWith(key, prefix) THEN Replace(key, prefix, "") ELSE key

\* _remove_contained_paths, the body of its first loop: one path expanded
expand_key_path(key_path) ==
    RStrip(ROOT_KEY_SHORT_REGEX_sub(normalize_key_string(key_path)), REGISTRY_PATH_SEPARATOR)

RECURSIVE DropContained(_, _)
\* _remove_contained_paths, the inner while loop: the sorted paths left after
\* those that start with current_path were popped
DropContained(sorted_paths, current_path) ==
    IF Len(sorted_paths) > 0 /\ StartsWith(sorted_paths[1], current_path)
    THEN DropContained(Tail(sorted_paths), current_path)
    ELSE sorted_paths

RECURSIVE ReduceSorted(_)
\* _remove_contained_paths, the outer while loop over the sorted paths
ReduceSorted(sorted_paths) ==
    IF Len(sorted_paths) = 0 THEN {}
    ELSE {sorted_paths[1]} \cup ReduceSorted(DropContained(Tail(sorted_paths), sorted_paths[1]))

\* Model._remove_contained_paths
remove_contained_paths(key_paths) ==
    ReduceSorted(Sorted([i \in 1..Len(key_paths) |-> expand_key_path(key_paths[i])]))

(***************************************************************************)
(* Python values held by the registry (winreg_mock.py) and RegistryValue.  *)
(***************************************************************************)
\* a Python str and a Python int as the data of a value
PyStr(s) == [kind |-> "str", s |-> s, n |-> 0]
PyInt(n) == [kind |-> "int", s |-> "", n |-> n]

Digits == "0123456789"

IsDigit(c) == \E i \in 1..Len(Digits) : CharAt(Digits, i) = c

DigitValue(c) == (CHOOSE i \in 1..Len(Digits) : CharAt(Digits, i) = c) - 1

RECURSIVE IsDecimal(_)
\* s is a non-empty run of decimal digits (what int(s) accepts here; signs,
\* blanks and underscores do not occur in the model's data)
IsDecimal(s) ==
    /\ Len(s) > 0
    /\ IsDigit(CharAt(s, 1))
    /\ (Len(s) = 1 \/ IsDecimal(Tail(s)))

RECURSIVE ParseInt(_)
\* int(s) for a decimal s
ParseInt(s) ==
    IF Len(s) = 1 THEN DigitValue(s)
    ELSE ParseInt(SubSeq(s, 1, Len(s) - 1)) * 10 + DigitValue(CharAt(s, Len(s)))

RECURSIVE IntToStr(_)
\* str(n) for an int n >= 0
IntToStr(n) ==
    IF n < 10 THEN CharAt(Digits, n + 1)
    ELSE IntToStr(n \div 10) \o CharAt(Digits, (n % 10) + 1)

\* str(data)
Str(v) == IF v.kind = "str" THEN v.s ELSE IntToStr(v.n)

\* winreg_mock._TYPE_MAPPING: the types whose function is str, is int, and
\* the types whose function raises NotImplementedError.  REG_BINARY and
\* REG_MULTI_SZ (bytes and list data) are outside the model's data.
StrTypes == {"REG_SZ", "REG_EXPAND_SZ"}
IntTypes == {"REG_DWORD", "REG_DWORD_LITTLE_ENDIAN", "REG_QWORD", "REG_QWORD_LITTLE_ENDIAN"}
NotImplementedTypes == {"REG_DWORD_BIG_ENDIAN", "REG_LINK", "REG_NONE", "REG_RESOURCE_LIST",
                        "REG_FULL_RESOURCE_DESCRIPTOR", "REG_RESOURCE_REQUIREMENTS_LIST"}
\* the REG_ constants winreg has, the keys of _TYPE_MAPPING
TYPE_MAPPING_keys ==
    StrTypes \cup IntTypes \cup NotImplementedTypes \cup {"REG_BINARY", "REG_MULTI_SZ"}

\* _TYPE_MAPPING[type].function(data) on the stored attribute, the text of
\* the XML or the object SetValueEx stored; any exception of the conversion
\* ends as OSError("General Error")
TYPE_MAPPING_function(type, data) ==
    IF type \in StrTypes THEN [ok |-> TRUE, v |-> PyStr(Str(data))]
    ELSE IF type \in IntTypes /\ data.kind = "int" THEN [ok |-> TRUE, v |-> data]
    ELSE IF type \in IntTypes /\ IsDecimal(data.s) THEN [ok |-> TRUE, v |-> PyInt(ParseInt(data.s))]
    ELSE [ok |-> FALSE, v |-> PyStr("")]

\* A local variable assigned once: Body applied to the value of v
Let(v, Body(_)) == CHOOSE y \in {Body(x) : x \in {v}} : TRUE

(***************************************************************************)
(* The registry store (winreg_mock.py).  The registry is a sequence of     *)
(* key elements in document order: parent is the index of the enclosing    *)
(* key (0 for a hive, a child of <registry>), values the <value> children  *)
(* in document order, data and type as the attribute texts.  A key the     *)
(* store refuses to open is marked denied.                                 *)
(***************************************************************************)
\* winreg_mock._HKEY_MAPPING: the names winreg has HKEY_ constants for
HKEY_NAMES == {"HKEY_CLASSES_ROOT", "HKEY_CURRENT_USER", "HKEY_LOCAL_MACHINE", "HKEY_USERS",
               "HKEY_PERFORMANCE_DATA", "HKEY_CURRENT_CONFIG", "HKEY_DYN_DATA"}

Key(parent, name, values) ==
    [parent |-> parent, name |-> name, values |-> values, denied |-> FALSE]
Val(name, data, type) == [name |-> name, data |-> PyStr(data), type |-> type]

\* Access rights (a handle's access mask as the set of its bits)
KEY_READ == {"KEY_QUERY_VALUE", "KEY_ENUMERATE_SUB_KEYS", "KEY_NOTIFY"}
KEY_WRITE == {"KEY_SET_VALUE", "KEY_CREATE_SUB_KEY"}

\* PyHKEY.is_allowed
is_allowed(access, action) == action \in access

\* the store refuses to open element e: access is denied
AccessDenied(reg, e) == reg[e].denied

\* the children of element h with tag <key>, in document order
SubKeyIds(reg, h) ==
    LET F[i \in 0..Len(reg)] ==
            IF i = 0 THEN <<>>
            ELSE IF reg[i].parent = h THEN Append(F[i - 1], i) ELSE F[i - 1]
    IN  F[Len(reg)]

\* element.find("key[@name='sk']"): the first child key of that exact name, 0 if none
FindSubKey(reg, h, sk) ==
    LET ids == SubKeyIds(reg, h)
    IN  IF \E j \in 1..Len(ids) : reg[ids[j]].name = sk
        THEN ids[CHOOSE j \in 1..Len(ids) :
                    /\ reg[ids[j]].name = sk
                    /\ \A k \in 1..(j - 1) : reg[ids[k]].name # sk]
        ELSE 0

RECURSIVE FindPath(_, _, _)
\* element.find of the xpath key[@name=..]/key[@name=..]/...
FindPath(reg, h, names) ==
    IF Len(names) = 0 THEN h
    ELSE LET c == FindSubKey(reg, h, names[1])
         IN  IF c = 0 THEN 0 ELSE FindPath(reg, c, Tail(names))

\* winreg_mock.PyHKEY.__init__: a new handle on an element of the registry
PyHKEY(element) == [element |-> element, is_closed |-> FALSE]

\* winreg_mock.PyHKEY.Close
PyHKEY_Close(handle) == [handle EXCEPT !.is_closed = TRUE]

\* winreg_mock.PyHKEY.__exit__, called when a with block is left: pass
PyHKEY_exit(handle) == handle

\* how many of these handles are open
OpenCount(handles) == Cardinality({i \in DOMAIN handles : ~handles[i].is_closed})

\* winreg_mock.ConnectRegistry: the hive element of that name, OSError if the
\* registry has none
ConnectRegistry(reg, key_str) ==
    LET h == FindSubKey(reg, 0, key_str)
    IN  [ok |-> h # 0, h |-> h]

\* winreg_mock.OpenKey: the element itself for "", else the element the
\* path leads to, OSError if there is none; PermissionError, an OSError, if
\* the store refuses access to the element
OpenKey(reg, h, sub_key) ==
    LET e == IF sub_key = "" THEN h
             ELSE FindPath(reg, h, Split(sub_key, REGISTRY_PATH_SEPARATOR))
    IN  IF e = 0 THEN [ok |-> FALSE, h |-> 0, err |-> "OSError"]
        ELSE IF AccessDenied(reg, e) THEN [ok |-> FALSE, h |-> 0, err |-> "PermissionError"]
        ELSE [ok |-> TRUE, h |-> e, err |-> ""]

\* winreg_mock.QueryInfoKey: (num_sub_keys, num_values)
QueryInfoKey(reg, h) == [num_sub_keys |-> Len(SubKeyIds(reg, h)), num_values |-> Len(reg[h].values)]

\* winreg_mock.EnumKey, index counted from 0
EnumKey(reg, h, index) == reg[SubKeyIds(reg, h)[index + 1]].name

\* winreg_mock.EnumValue, index counted from 0: (name, function(data), type)
EnumValue(reg, h, index) ==
    LET value == reg[h].values[index + 1]
        conv  == TYPE_MAPPING_function(value.type, value.data)
    IN  [ok |-> conv.ok, name |-> value.name, data |-> conv.v, type |-> value.type]

\* the index in values of the first <value> of that exact name, 0 if none
FindValue(values, value_name) ==
    IF \E i \in 1..Len(values) : values[i].name = value_name
    THEN CHOOSE i \in 1..Len(values) :
            /\ values[i].name = value_name
            /\ \A j \in 1..(i - 1) : values[j].name # value_name
    ELSE 0

RECURSIVE CreateMissing(_, _, _)
\* winreg_mock.CreateKey, its second loop: a new <key> element for each
\* missing name, each under the one before; h is the last one created
CreateMissing(reg, h, missing_subkey_names) ==
    IF Len(missing_subkey_names) = 0 THEN [ok |-> TRUE, reg |-> reg, h |-> h, err |-> ""]
    ELSE CreateMissing(Append(reg, Key(h, missing_subkey_names[1], <<>>)), Len(reg) + 1,
                       Tail(missing_subkey_names))

RECURSIVE CreateKeyFrom(_, _, _, _)
\* winreg_mock.CreateKey, its first loop: the innermost existing key of the
\* path is opened, the names after it are missing
CreateKeyFrom(reg, h, subkey_names, missing_subkey_names) ==
    IF Len(subkey_names) = 0 THEN CreateMissing(reg, h, missing_subkey_names)
    ELSE Let(OpenKey(reg, h, Join(subkey_names, REGISTRY_PATH_SEPARATOR)), LAMBDA o :
             IF o.ok THEN CreateMissing(reg, o.h, missing_subkey_names)
             ELSE CreateKeyFrom(reg, h, SubSeq(subkey_names, 1, Len(subkey_names) - 1),
                                <<subkey_names[Len(subkey_names)]>> \o missing_subkey_names))

\* winreg_mock.CreateKey on a handle of that access: the registry afterwards
\* and the handle of the key
CreateKey(reg, h, access, sub_key) ==
    IF ~is_allowed(access, "KEY_CREATE_SUB_KEY")
    THEN [ok |-> FALSE, reg |-> reg, h |-> 0, err |-> "PermissionError"]
    ELSE CreateKeyFrom(reg, h, Split(sub_key, REGISTRY_PATH_SEPARATOR), <<>>)

\* SetValueEx that adds a <value> element even when one of that name exists
SetValueEx_appending(reg, h, access, value_name, value_type, value) ==
    IF ~is_allowed(access, "KEY_SET_VALUE")
    THEN [ok |-> FALSE, reg |-> reg, err |-> "PermissionError"]
    ELSE [ok |-> TRUE, err |-> "",
          reg |-> [reg EXCEPT ![h].values =
                      Append(@, [name |-> value_name, data |-> value, type |-> value_type])]]

\* winreg_mock.SetValueEx on a handle of that access (value_type is one of
\* _TYPE_MAPPING): a new <value> holds the object given as data, an
\* existing one gets str(value)
SetValueEx(reg, h, access, value_name, value_type, value) ==
    IF ~is_allowed(access, "KEY_SET_VALUE")
    THEN [ok |-> FALSE, reg |-> reg, err |-> "PermissionError"]
    ELSE LET i == FindValue(reg[h].values, value_name)
         IN  [ok |-> TRUE, err |-> "",
              reg |-> IF i = 0
                      THEN [reg EXCEPT ![h].values =
                               Append(@, [name |-> value_name, data |-> value,
                                          type |-> value_type])]
                      ELSE [reg EXCEPT ![h].values[i].data = PyStr(Str(value)),
                                       ![h].values[i].type = value_type]]

\* winreg_mock.QueryValueEx: function(data) of the value of that name,
\* FileNotFoundError if there is none
QueryValueEx(reg, h, access, value_name) ==
    IF ~is_allowed(access, "KEY_QUERY_VALUE")
    THEN [ok |-> FALSE, v |-> PyStr(""), err |-> "PermissionError"]
    ELSE LET i == FindValue(reg[h].values, value_name)
         IN  IF i = 0 THEN [ok |-> FALSE, v |-> PyStr(""), err |-> "FileNotFoundError"]
             ELSE LET conv == TYPE_MAPPING_function(reg[h].values[i].type,
                                                    reg[h].values[i].data)
                  IN  [ok |-> conv.ok, v |-> conv.v,
                       err |-> IF conv.ok THEN "" ELSE "OSError"]

\* the sequence without its i-th element
RemoveAt(seq, i) == SubSeq(seq, 1, i - 1) \o SubSeq(seq, i + 1, Len(seq))

\* winreg.DeleteValue: the value of that name is removed from the key,
\* FileNotFoundError if there is none
DeleteValue(reg, h, access, value_name) ==
    IF ~is_allowed(access, "KEY_SET_VALUE")
    THEN [ok |-> FALSE, reg |-> reg, err |-> "PermissionError"]
    ELSE LET i == FindValue(reg[h].values, value_name)
         IN  IF i = 0 THEN [ok |-> FALSE, reg |-> reg, err |-> "FileNotFoundError"]
             ELSE [ok |-> TRUE, err |-> "",
                   reg |-> [reg EXCEPT ![h].values = RemoveAt(@, i)]]

(***************************************************************************)
(* RegistryKey and RegistryValue (common.py).  A tree of RegistryKey       *)
(* objects is a sequence of keys in creation order; key 1 is the root.     *)
(* parent is the index of the key whose _sub_keys holds this key and key   *)
(* the dictionary key it is stored under.  values is the _values           *)
(* dictionary: its entries in insertion order, each with its dictionary    *)
(* key.                                                                    *)
(***************************************************************************)
\* RegistryValue.__init__
RegistryValue(name, data, data_type) == [name |-> name, data |-> data, data_type |-> data_type]

\* RegistryKey.__init__
RegistryKey(name) == [parent |-> 0, key |-> "", name |-> name, is_explicit |-> FALSE, values |-> <<>>]

\* the index of the entry of parent's _sub_keys stored under dictionary key k, 0 if none
SubKeyAt(t, parent, k) ==
    IF \E i \in 1..Len(t) : t[i].parent = parent /\ t[i].key = k
    THEN CHOOSE i \in 1..Len(t) : t[i].parent = parent /\ t[i].key = k
    ELSE 0

\* _add_sub_key that stores the child without looking for its name
add_sub_key_unchecked(t, self, sub_key) ==
    [t |-> Append(t, [sub_key EXCEPT !.parent = self, !.key = Lower(sub_key.name)]), err |-> ""]

\* RegistryKey._add_sub_key on key self of tree t: RuntimeError if the
\* lower-cased name is taken
add_sub_key(t, self, sub_key) ==
    LET name_lower == Lower(sub_key.name)
    IN  IF SubKeyAt(t, self, name_lower) # 0
        THEN [t |-> t, err |-> "RuntimeError"]
        ELSE [t |-> Append(t, [sub_key EXCEPT !.parent = self, !.key = name_lower]), err |-> ""]

\* get_sub_key that does not look for an existing child before creating one
get_sub_key_always_creating(t, self, sub_key_name, create_if_missing) ==
    IF create_if_missing
    THEN LET r == add_sub_key(t, self, RegistryKey(sub_key_name))
         IN  [t |-> r.t, id |-> Len(r.t), err |-> r.err]
    ELSE [t |-> t, id |-> 0, err |-> "KeyError"]

\* get_sub_key that marks the key it creates as explicit
get_sub_key_marking(t, self, sub_key_name, create_if_missing) ==
    LET found == SubKeyAt(t, self, Lower(sub_key_name))
    IN  IF found # 0 THEN [t |-> t, id |-> found, err |-> ""]
        ELSE IF create_if_missing
             THEN LET r == add_sub_key(t, self, [RegistryKey(sub_key_name) EXCEPT !.is_explicit = TRUE])
                  IN  [t |-> r.t, id |-> Len(r.t), err |-> r.err]
             ELSE [t |-> t, id |-> 0, err |-> "KeyError"]

\* RegistryKey.get_sub_key on key self of tree t: id is the child returned
get_sub_key(t, self, sub_key_name, create_if_missing) ==
    LET found == SubKeyAt(t, self, Lower(sub_key_name))
    IN  IF found # 0 THEN [t |-> t, id |-> found, err |-> ""]
        ELSE IF create_if_missing
             THEN LET r == add_sub_key(t, self, RegistryKey(sub_key_name))
                  IN  [t |-> r.t, id |-> Len(r.t), err |-> r.err]
             ELSE [t |-> t, id |-> 0, err |-> "KeyError"]

\* the dictionary keys of a _values dictionary
ValueKeys(values) == {values[i].key : i \in 1..Len(values)}

\* RegistryKey.add_value on key self of tree t
add_value(t, self, value) ==
    LET name_lower == Lower(value.name)
    IN  IF name_lower \in ValueKeys(t[self].values)
        THEN [t |-> t, err |-> "RuntimeError"]
        ELSE [t |-> [t EXCEPT ![self].values = Append(@, [key |-> name_lower, value |-> value])],
              err |-> ""]

\* RegistryValue.__eq__
RegistryValue_eq(a, b) ==
    /\ Lower(a.name) = Lower(b.name)
    /\ Str(a.data) = Str(b.data)
    /\ a.data_type = b.data_type

\* equality of two _values dictionaries: the same keys, equal values under each
ValuesEq(va, vb) ==
    /\ ValueKeys(va) = ValueKeys(vb)
    /\ \A i \in 1..Len(va) : \A j \in 1..Len(vb) :
            va[i].key = vb[j].key => RegistryValue_eq(va[i].value, vb[j].value)

\* the indices of the entries of key self's _sub_keys
SubKeysOf(t, self) == {i \in 1..Len(t) : t[i].parent = self}

RECURSIVE RegistryKey_eq_comparing_flags(_, _, _, _)
\* an equality of keys that compares is_explicit as well
RegistryKey_eq_comparing_flags(ta, a, tb, b) ==
    /\ ta[a].is_explicit = tb[b].is_explicit
    /\ {ta[i].key : i \in SubKeysOf(ta, a)} = {tb[j].key : j \in SubKeysOf(tb, b)}
    /\ \A i \in SubKeysOf(ta, a) : \A j \in SubKeysOf(tb, b) :
            ta[i].key = tb[j].key => RegistryKey_eq_comparing_flags(ta, i, tb, j)
    /\ ValuesEq(ta[a].values, tb[b].values)

RECURSIVE RegistryKey_eq(_, _, _, _)
\* RegistryKey.__eq__ of key a of tree ta and key b of tree tb: the _sub_keys
\* dictionaries are equal (same dictionary keys, equal keys under each) and
\* the _values dictionaries are equal; name and is_explicit are not compared
RegistryKey_eq(ta, a, tb, b) ==
    /\ {ta[i].key : i \in SubKeysOf(ta, a)} = {tb[j].key : j \in SubKeysOf(tb, b)}
    /\ \A i \in SubKeysOf(ta, a) : \A j \in SubKeysOf(tb, b) :
            ta[i].key = tb[j].key => RegistryKey_eq(ta, i, tb, j)
    /\ ValuesEq(ta[a].values, tb[b].values)

(***************************************************************************)
(* Model: building the tree (model.py).                                    *)
(***************************************************************************)
\* Model._root_key_name_to_value: getattr(winreg, root_key) succeeds for the
\* HKEY_ names, else RgEdtException
root_key_name_to_value(root_key) == [ok |-> root_key \in HKEY_NAMES, const |-> root_key]

RECURSIVE BuildSubKeys(_, _, _, _, _)
RECURSIVE BuildValues(_, _, _, _, _)
\* _build_subkey_structure without "current_key.is_explicit = True"
build_subkey_structure_unmarked(t, reg, base_key_handle, current_key, current_key_name) ==
    Let(OpenKey(reg, base_key_handle, current_key_name), LAMBDA o :
        IF ~o.ok THEN [t |-> t, err |-> "OSError", handles |-> <<>>]
        ELSE Let(BuildSubKeys(t, reg, o.h, current_key, 0), LAMBDA r :
             Let(IF r.err # "" THEN r
                 ELSE [BuildValues(r.t, reg, o.h, current_key, 0)
                          EXCEPT !.handles = r.handles \o @], LAMBDA b :
                 [b EXCEPT !.handles = <<PyHKEY_exit(PyHKEY(o.h))>> \o @])))

RECURSIVE build_subkey_structure(_, _, _, _, _)
\* Model._build_subkey_structure(base_key_handle, current_key, current_key_name)
\* on tree t and registry reg: the tree afterwards, the exception raised,
\* and the handles it opened, each as the with block that opened it left it
build_subkey_structure(t, reg, base_key_handle, current_key, current_key_name) ==
    Let([t EXCEPT ![current_key].is_explicit = TRUE], LAMBDA t1 :
    Let(OpenKey(reg, base_key_handle, current_key_name), LAMBDA o :
        IF ~o.ok THEN [t |-> t1, err |-> "OSError", handles |-> <<>>]
        ELSE Let(BuildSubKeys(t1, reg, o.h, current_key, 0), LAMBDA r :
             Let(IF r.err # "" THEN r
                 ELSE [BuildValues(r.t, reg, o.h, current_key, 0)
                          EXCEPT !.handles = r.handles \o @], LAMBDA b :
                 [b EXCEPT !.handles = <<PyHKEY_exit(PyHKEY(o.h))>> \o @]))))

\* _build_subkey_structure: for i in range(num_sub_keys), from index i on
BuildSubKeys(t, reg, sub_key_handle, current_key, i) ==
    IF i >= QueryInfoKey(reg, sub_key_handle).num_sub_keys
    THEN [t |-> t, err |-> "", handles |-> <<>>]
    ELSE Let(get_sub_key(t, current_key, EnumKey(reg, sub_key_handle, i), TRUE), LAMBDA g :
             IF g.err # "" THEN [t |-> g.t, err |-> g.err, handles |-> <<>>]
             ELSE Let(build_subkey_structure(g.t, reg, sub_key_handle, g.id, g.t[g.id].name),
                      LAMBDA r :
                          IF r.err # "" THEN r
                          ELSE [BuildSubKeys(r.t, reg, sub_key_handle, current_key, i + 1)
                                   EXCEPT !.handles = r.handles \o @]))

\* _build_subkey_structure: for i in range(num_values), from index i on
BuildValues(t, reg, sub_key_handle, current_key, i) ==
    IF i >= QueryInfoKey(reg, sub_key_handle).num_values
    THEN [t |-> t, err |-> "", handles |-> <<>>]
    ELSE Let(EnumValue(reg, sub_key_handle, i), LAMBDA e :
             IF ~e.ok THEN [t |-> t, err |-> "OSError", handles |-> <<>>]
             ELSE Let(add_value(t, current_key, RegistryValue(e.name, e.data, e.type)), LAMBDA r :
                      IF r.err # "" THEN [t |-> r.t, err |-> r.err, handles |-> <<>>]
                      ELSE BuildValues(r.t, reg, sub_key_handle, current_key, i + 1)))

RECURSIVE WalkMiddle(_, _, _)
\* _build_key_structure: for middle_key_str in keys_in_path
WalkMiddle(t, current_key, keys_in_path) ==
    IF Len(keys_in_path) = 0 THEN [t |-> t, id |-> current_key, err |-> ""]
    ELSE Let(get_sub_key(t, current_key, keys_in_path[1], TRUE), LAMBDA g :
             IF g.err # "" THEN g ELSE WalkMiddle(g.t, g.id, Tail(keys_in_path)))

\* _build_key_structure below the hive key root: the middle keys and the
\* mirrored leaf
BuildBelowRoot(t, reg, root_key_handle, root_key, keys_in_path) ==
    LET leaf_key_str == keys_in_path[Len(keys_in_path)]
        middle       == SubSeq(keys_in_path, 1, Len(keys_in_path) - 1)
        middle_path  == Join(middle, REGISTRY_PATH_SEPARATOR)
    IN  Let(WalkMiddle(t, root_key, middle), LAMBDA w :
            IF w.err # "" THEN [t |-> w.t, err |-> w.err, handles |-> <<>>]
            ELSE Let(OpenKey(reg, root_key_handle, middle_path), LAMBDA o :
                     IF ~o.ok THEN [t |-> w.t, err |-> "OSError", handles |-> <<>>]
                     ELSE Let(get_sub_key(w.t, w.id, leaf_key_str, TRUE), LAMBDA leaf :
                              IF leaf.err # ""
                              THEN [t |-> leaf.t, err |-> leaf.err,
                                    handles |-> <<PyHKEY_exit(PyHKEY(o.h))>>]
                              ELSE [build_subkey_structure(leaf.t, reg, o.h, leaf.id,
                                                           leaf.t[leaf.id].name)
                                       EXCEPT !.handles = <<PyHKEY_exit(PyHKEY(o.h))>> \o @])))

\* _build_key_structure after the existence probe: the hive key, then the
\* path below it or, for a path of the hive alone, the mirror of the hive
BuildFromRoot(computer, reg, root_key_handle, root_key_str, keys_in_path) ==
    Let(get_sub_key(computer, 1, root_key_str, TRUE), LAMBDA root :
        IF root.err # "" THEN [t |-> root.t, err |-> root.err, handles |-> <<>>]
        ELSE IF Len(keys_in_path) > 0
             THEN BuildBelowRoot(root.t, reg, root_key_handle, root.id, keys_in_path)
             ELSE build_subkey_structure(root.t, reg, root_key_handle, root.id, ""))

\* _build_key_structure that creates the hive key before it probes the path
build_key_structure_probing_late(computer, reg, ignore, key_path) ==
    LET split        == Split(key_path, REGISTRY_PATH_SEPARATOR)
        first        == split[1]
        keys_in_path == Tail(split)
        root_key_str == IF IsRootKeyShort(first) THEN ROOT_KEY_SHORT(first) ELSE first
        const        == root_key_name_to_value(root_key_str)
    IN  IF ~const.ok
        THEN [t |-> computer, status |-> "raised", err |-> "RgEdtException", handles |-> <<>>]
        ELSE Let(ConnectRegistry(reg, const.const), LAMBDA root_key_handle :
                 IF ~root_key_handle.ok
                 THEN [t |-> computer, status |-> "raised", err |-> "OSError", handles |-> <<>>]
                 ELSE
                 Let(OpenKey(reg, root_key_handle.h, Join(keys_in_path, REGISTRY_PATH_SEPARATOR)),
                     LAMBDA sub_key_handle :
                 IF ~sub_key_handle.ok
                 THEN IF ignore
                      THEN [t |-> get_sub_key(computer, 1, root_key_str, TRUE).t,
                            status |-> "skipped", err |-> "",
                            handles |-> <<PyHKEY_exit(PyHKEY(root_key_handle.h))>>]
                      ELSE [t |-> computer, status |-> "raised", err |-> "OSError",
                            handles |-> <<PyHKEY_exit(PyHKEY(root_key_handle.h))>>]
                 ELSE Let(BuildFromRoot(computer, reg, root_key_handle.h, root_key_str,
                                        keys_in_path),
                          LAMBDA r : [t |-> r.t,
                                      status |-> IF r.err = "" THEN "built" ELSE "raised",
                                      err |-> r.err,
                                      handles |-> <<PyHKEY_exit(PyHKEY(root_key_handle.h)),
                                                    PyHKEY_exit(PyHKEY(sub_key_handle.h))>>
                                                  \o r.handles])))

\* Model._build_key_structure(computer, key_path) on registry reg: the tree
\* afterwards, status "built", "skipped" (missing key ignored) or "raised",
\* and the exception raised
build_key_structure(computer, reg, ignore, key_path) ==
    LET split        == Split(key_path, REGISTRY_PATH_SEPARATOR)
        first        == split[1]
        keys_in_path == Tail(split)
        root_key_str == IF IsRootKeyShort(first) THEN ROOT_KEY_SHORT(first) ELSE first
        const        == root_key_name_to_value(root_key_str)
    IN  IF ~const.ok
        THEN [t |-> computer, status |-> "raised", err |-> "RgEdtException", handles |-> <<>>]
        ELSE Let(ConnectRegistry(reg, const.const), LAMBDA root_key_handle :
                 IF ~root_key_handle.ok
                 THEN [t |-> computer, status |-> "raised", err |-> "OSError", handles |-> <<>>]
                 ELSE
                 Let(OpenKey(reg, root_key_handle.h, Join(keys_in_path, REGISTRY_PATH_SEPARATOR)),
                     LAMBDA sub_key_handle :
                 IF ~sub_key_handle.ok
                 THEN IF ignore
                      THEN [t |-> computer, status |-> "skipped", err |-> "",
                            handles |-> <<PyHKEY_exit(PyHKEY(root_key_handle.h))>>]
                      ELSE [t |-> computer, status |-> "raised", err |-> "OSError",
                            handles |-> <<PyHKEY_exit(PyHKEY(root_key_handle.h))>>]
                 ELSE Let(BuildFromRoot(computer, reg, root_key_handle.h, root_key_str,
                                        keys_in_path),
                          LAMBDA r : [t |-> r.t,
                                      status |-> IF r.err = "" THEN "built" ELSE "raised",
                                      err |-> r.err,
                                      handles |-> <<PyHKEY_exit(PyHKEY(root_key_handle.h)),
                                                    PyHKEY_exit(PyHKEY(sub_key_handle.h))>>
                                                  \o r.handles])))

\* Model._build_key_structure while another process changes the registry:
\* the existence probe runs on reg, and everything after it, from
\* computer.get_sub_key(root_key_str) on, runs on reg_late
build_key_structure_racing(computer, reg, reg_late, ignore, key_path) ==
    LET split        == Split(key_path, REGISTRY_PATH_SEPARATOR)
        first        == split[1]
        keys_in_path == Tail(split)
        root_key_str == IF IsRootKeyShort(first) THEN ROOT_KEY_SHORT(first) ELSE first
        const        == root_key_name_to_value(root_key_str)
    IN  IF ~const.ok
        THEN [t |-> computer, status |-> "raised", err |-> "RgEdtException", handles |-> <<>>]
        ELSE Let(ConnectRegistry(reg, const.const), LAMBDA root_key_handle :
                 IF ~root_key_handle.ok
                 THEN [t |-> computer, status |-> "raised", err |-> "OSError", handles |-> <<>>]
                 ELSE
                 Let(OpenKey(reg, root_key_handle.h, Join(keys_in_path, REGISTRY_PATH_SEPARATOR)),
                     LAMBDA sub_key_handle :
                 IF ~sub_key_handle.ok
                 THEN IF ignore
                      THEN [t |-> computer, status |-> "skipped", err |-> "",
                            handles |-> <<PyHKEY_exit(PyHKEY(root_key_handle.h))>>]
                      ELSE [t |-> computer, status |-> "raised", err |-> "OSError",
                            handles |-> <<PyHKEY_exit(PyHKEY(root_key_handle.h))>>]
                 ELSE Let(BuildFromRoot(computer, reg_late, root_key_handle.h, root_key_str,
                                        keys_in_path),
                          LAMBDA r : [t |-> r.t,
                                      status |-> IF r.err = "" THEN "built" ELSE "raised",
                                      err |-> r.err,
                                      handles |-> <<PyHKEY_exit(PyHKEY(root_key_handle.h)),
                                                    PyHKEY_exit(PyHKEY(sub_key_handle.h))>>
                                                  \o r.handles])))

\* Model.get_registry_tree, the loop over the reduced paths taken in the
\* given order: the tree, whether the call returned or raised, and the paths
\* that were built (not skipped)
RECURSIVE BuildInOrder(_, _, _, _, _)
BuildInOrder(computer, reg, ignore, order, done) ==
    IF Len(order) = 0
    THEN [t |-> computer, outcome |-> "returned", built |-> done, handles |-> <<>>]
    ELSE Let(build_key_structure(computer, reg, ignore, order[1]), LAMBDA r :
             IF r.status = "raised"
             THEN [t |-> r.t, outcome |-> "raised", built |-> done, handles |-> r.handles]
             ELSE [BuildInOrder(r.t, reg, ignore, Tail(order),
                                IF r.status = "built" THEN done \cup {order[1]} ELSE done)
                      EXCEPT !.handles = r.handles \o @])

RECURSIVE SetToSeq(_)
\* the elements of a set of paths as a sequence
SetToSeq(S) == IF S = {} THEN <<>> ELSE LET x == CHOOSE x \in S : TRUE IN <<x>> \o SetToSeq(S \ {x})

\* Model.get_registry_tree(key_paths) with the reduced set iterated in sorted order
get_registry_tree(reg, ignore, paths) ==
    BuildInOrder(<<RegistryKey(COMPUTER_ROOT_STR)>>, reg, ignore,
                 Sorted(SetToSeq(remove_contained_paths(paths))), {})

(***************************************************************************)
(* The value operations of Model (model.py) and the callback of            *)
(* Application that guards one of them.  An operation gives the registry   *)
(* afterwards, how it ended ("returned" or "raised"), the exception raised *)
(* and its __cause__, the value returned and the store calls it made.      *)
(***************************************************************************)
Returns(reg, value, store_calls) ==
    [status |-> "returned", exception |-> "", message |-> "", cause |-> "", value |-> value,
     reg |-> reg, store_calls |-> store_calls, handles |-> <<>>]

Raises(reg, message, cause, store_calls) ==
    [status |-> "raised", exception |-> "RgEdtException", message |-> message,
     cause |-> cause, value |-> <<>>, reg |-> reg, store_calls |-> store_calls,
     handles |-> <<>>]

\* the outcome r of an operation that opened these handles before its own
Opened(handles, r) == [r EXCEPT !.handles = handles \o @]

\* Model._split_key: the winreg constant of the root and the rest of the
\* path; RgEdtException from _root_key_name_to_value
split_key(key) ==
    Let(Split(key, REGISTRY_PATH_SEPARATOR), LAMBDA split_key_ :
        Let(root_key_name_to_value(IF IsRootKeyShort(split_key_[1])
                                   THEN ROOT_KEY_SHORT(split_key_[1])
                                   ELSE split_key_[1]), LAMBDA const :
            [ok |-> const.ok, root_key_const |-> const.const,
             rest_of_key |-> Join(Tail(split_key_), REGISTRY_PATH_SEPARATOR)]))

\* the head every value operation shares: the key normalized and split, the
\* hive connected and the key opened; handles are the handles of the two
\* with blocks, as the blocks leave them when the operation ends
open_key(reg, key) ==
    Let(split_key(normalize_key_string(key)), LAMBDA s :
        IF ~s.ok
        THEN [ok |-> FALSE, h |-> 0, err |-> "RgEdtException", store_calls |-> <<>>,
              handles |-> <<>>]
        ELSE Let(ConnectRegistry(reg, s.root_key_const), LAMBDA c :
                 IF ~c.ok
                 THEN [ok |-> FALSE, h |-> 0, err |-> "OSError",
                       store_calls |-> <<"ConnectRegistry">>, handles |-> <<>>]
                 ELSE Let(OpenKey(reg, c.h, s.rest_of_key), LAMBDA o :
                          [ok |-> o.ok, h |-> o.h, err |-> o.err,
                           store_calls |-> <<"ConnectRegistry", "OpenKey">>,
                           handles |-> IF o.ok
                                       THEN <<PyHKEY_exit(PyHKEY(c.h)), PyHKEY_exit(PyHKEY(o.h))>>
                                       ELSE <<PyHKEY_exit(PyHKEY(c.h))>>])))

RECURSIVE EnumValues(_, _, _, _)
\* get_registry_key_values: for i in range(num_values), from index i on
EnumValues(reg, h, i, values) ==
    IF i >= QueryInfoKey(reg, h).num_values THEN [ok |-> TRUE, values |-> values, n |-> i]
    ELSE Let(EnumValue(reg, h, i), LAMBDA e :
             IF ~e.ok THEN [ok |-> FALSE, values |-> values, n |-> i + 1]
             ELSE EnumValues(reg, h, i + 1,
                             Append(values, RegistryValue(e.name, e.data, e.type))))

\* get_registry_key_values answering a key it cannot open with no values
get_registry_key_values_lenient(reg, key) ==
    Let(open_key(reg, key), LAMBDA o : Opened(o.handles,
        IF ~o.ok THEN Returns(reg, <<>>, o.store_calls)
        ELSE Let(EnumValues(reg, o.h, 0, <<>>), LAMBDA e :
                 Let(o.store_calls \o <<"QueryInfoKey">> \o [j \in 1..e.n |-> "EnumValue"],
                     LAMBDA calls :
                         IF e.ok THEN Returns(reg, e.values, calls)
                         ELSE Raises(reg, "Can't retrieve values", "OSError", calls)))))

\* Model.get_registry_key_values(key)
get_registry_key_values(reg, key) ==
    Let(open_key(reg, key), LAMBDA o : Opened(o.handles,
        IF ~o.ok THEN Raises(reg, "Can't retrieve values", o.err, o.store_calls)
        ELSE Let(EnumValues(reg, o.h, 0, <<>>), LAMBDA e :
                 Let(o.store_calls \o <<"QueryInfoKey">> \o [j \in 1..e.n |-> "EnumValue"],
                     LAMBDA calls :
                         IF e.ok THEN Returns(reg, e.values, calls)
                         ELSE Raises(reg, "Can't retrieve values", "OSError", calls)))))

\* Model.get_registry_key_value(key, value_name)
get_registry_key_value(reg, key, value_name) ==
    Let(open_key(reg, key), LAMBDA o : Opened(o.handles,
        IF ~o.ok THEN Raises(reg, "Can't retrieve value", o.err, o.store_calls)
        ELSE Let(QueryValueEx(reg, o.h, KEY_READ, value_name), LAMBDA q :
                 IF q.ok THEN Returns(reg, q.v, Append(o.store_calls, "QueryValueEx"))
                 ELSE Raises(reg, "Can't retrieve value", q.err,
                             Append(o.store_calls, "QueryValueEx")))))

\* Model.edit_registry_key_value(key, value_name, value_type, new_value);
\* getattr(winreg, value_type) raises AttributeError for an unknown type
edit_registry_key_value(reg, key, value_name, value_type, new_value) ==
    Let(open_key(reg, key), LAMBDA o : Opened(o.handles,
        IF ~o.ok THEN Raises(reg, "Can't set value", o.err, o.store_calls)
        ELSE IF value_type \notin TYPE_MAPPING_keys
        THEN Raises(reg, "Can't set value", "AttributeError", o.store_calls)
        ELSE Let(SetValueEx(reg, o.h, KEY_WRITE, value_name, value_type, new_value),
                 LAMBDA w :
                     IF w.ok THEN Returns(w.reg, <<>>, Append(o.store_calls, "SetValueEx"))
                     ELSE Raises(reg, "Can't set value", w.err,
                                 Append(o.store_calls, "SetValueEx")))))

\* Model.add_key(key, name): OpenKey(sub_key_handle, name) succeeding means
\* the key exists, its OSError that it is to be created; either handle is
\* closed with Close() (the handles CreateKey opens and closes on its way to
\* the one it returns are left out)
add_key(reg, key, name) ==
    Let(open_key(reg, key), LAMBDA o : Opened(o.handles,
        IF ~o.ok
        THEN IF o.err = "RgEdtException"
             THEN Raises(reg, "Can't find registry key root", "AttributeError", o.store_calls)
             ELSE Raises(reg, "Can't create key", o.err, o.store_calls)
        ELSE IF OpenKey(reg, o.h, name).ok
        THEN Opened(<<PyHKEY_Close(PyHKEY(OpenKey(reg, o.h, name).h))>>,
                    Raises(reg, "already exists", "", Append(o.store_calls, "OpenKey")))
        ELSE Let(CreateKey(reg, o.h, KEY_WRITE, name), LAMBDA c :
                 IF c.ok THEN Opened(<<PyHKEY_Close(PyHKEY(c.h))>>,
                                     Returns(c.reg, <<>>,
                                             o.store_calls \o <<"OpenKey", "CreateKey">>))
                 ELSE Raises(reg, "Can't create key", c.err,
                             o.store_calls \o <<"OpenKey", "CreateKey">>))))

\* Model.delete_value(key, value_name)
delete_value(reg, key, value_name) ==
    Let(open_key(reg, key), LAMBDA o : Opened(o.handles,
        IF ~o.ok THEN Raises(reg, "Can't delete value", o.err, o.store_calls)
        ELSE Let(DeleteValue(reg, o.h, KEY_WRITE, value_name), LAMBDA d :
                 IF d.ok THEN Returns(d.reg, <<>>, Append(o.store_calls, "DeleteValue"))
                 ELSE Raises(reg, "Can't delete value", d.err,
                             Append(o.store_calls, "DeleteValue")))))

\* cb_delete_value without its guard against the default value
cb_delete_value_unguarded(reg, path, data_name) ==
    Let(delete_value(reg, path, data_name), LAMBDA d :
        IF d.status = "raised" THEN d
        ELSE Let(get_registry_key_values(d.reg, path), LAMBDA v :
                 [v EXCEPT !.store_calls = d.store_calls \o @, !.handles = d.handles \o @]))

\* Application.cb_delete_value(path, data_name): the default value is
\* refused, else the value is deleted and the key's values are displayed
\* afresh (Application._display_current_key_values)
cb_delete_value(reg, path, data_name) ==
    IF data_name = "" THEN Raises(reg, "Can't delete the default value!", "", <<>>)
    ELSE Let(delete_value(reg, path, data_name), LAMBDA d :
             IF d.status = "raised" THEN d
             ELSE Let(get_registry_key_values(d.reg, path), LAMBDA v :
                      [v EXCEPT !.store_calls = d.store_calls \o @, !.handles = d.handles \o @]))

(***************************************************************************)
(* Application (application.py) and the view it drives (view/main.py,      *)
(* view/keys_area.py, view/details_area.py).  A callback gives what the    *)
(* value operations give and, besides, whether it handed values to the     *)
(* view (display, values) and the text it left in the status bar (bar).    *)
(***************************************************************************)
\* Model._DEFAULT_VALUES and Model.get_default_value(data_type)
get_default_value(data_type) ==
    IF data_type = "REG_SZ" THEN [ok |-> TRUE, v |-> PyStr("")]
    ELSE IF data_type = "REG_DWORD" THEN [ok |-> TRUE, v |-> PyInt(0)]
    ELSE [ok |-> FALSE, v |-> PyStr("")]

\* the events Application.__init__ registers a callback for
Application_callbacks ==
    {"KEY_SELECTED", "EDIT_VALUE", "ADD_KEY", "ADD_VALUE", "DELETE_VALUE", "REFRESH",
     "SET_STATUS", "SHOW_ERROR", "CONFIGURE_KEY_LIST", "SET_KEY_LIST"}

\* Configuration.key_list: the setter joins the list into lines, the getter
\* splits them, strips each and drops the empty ones (the paths of the model
\* hold no blanks and no line feeds)
Configuration_key_list(value) == SelectSeq(value, LAMBDA x : x # "")

\* the outcome r of an operation, as a callback that handed these values to
\* the view, or none, and left this text in the status bar
Viewed(r, display, values, bar) == [display |-> display, values |-> values, bar |-> bar] @@ r

\* second, which ran after first: the store calls and handles of both
Then(first, second) ==
    [second EXCEPT !.store_calls = first.store_calls \o @, !.handles = first.handles \o @]

\* Application._display_current_key_values(path)
display_current_key_values(reg, path) ==
    Let(get_registry_key_values(reg, path), LAMBDA v :
        IF v.status = "returned" THEN Viewed(v, TRUE, v.value, "")
        ELSE Viewed(v, FALSE, <<>>, ""))

\* Application.cb_key_selected(path, is_explicit)
cb_key_selected(reg, path, is_explicit) ==
    IF is_explicit THEN display_current_key_values(reg, path)
    ELSE Viewed(Returns(reg, <<>>, <<>>), FALSE, <<>>,
                "Selected key is not under the configured key list")

\* Application.cb_refresh(path)
cb_refresh(reg, path) == display_current_key_values(reg, path)

\* cb_edit_value that fetches the values it displays before it writes
cb_edit_value_fetching_first(reg, path, data_name, data_type, new_value) ==
    Let(edit_registry_key_value(reg, path, data_name, data_type, new_value), LAMBDA w :
        IF w.status = "raised" THEN Viewed(w, FALSE, <<>>, "")
        ELSE Let(display_current_key_values(reg, path), LAMBDA v :
                 Then(w, IF v.status = "raised" THEN [v EXCEPT !.reg = w.reg]
                         ELSE [v EXCEPT !.reg = w.reg, !.bar = "Value edited successfully"])))

\* Application.cb_edit_value(path, data_name, data_type, new_value)
cb_edit_value(reg, path, data_name, data_type, new_value) ==
    Let(edit_registry_key_value(reg, path, data_name, data_type, new_value), LAMBDA w :
        IF w.status = "raised" THEN Viewed(w, FALSE, <<>>, "")
        ELSE Let(display_current_key_values(w.reg, path), LAMBDA v :
                 Then(w, IF v.status = "raised" THEN v
                         ELSE [v EXCEPT !.bar = "Value edited successfully"])))

\* Application.cb_add_value(path, data_name, data_type, new_value); value is
\* <<FALSE>> or <<TRUE>>, what the callback returns
cb_add_value(reg, path, data_name, data_type, new_value) ==
    Let(get_registry_key_value(reg, path, data_name), LAMBDA g :
        IF g.status = "returned"
        THEN Viewed([g EXCEPT !.value = <<FALSE>>], FALSE, <<>>, "Value already exists")
        ELSE Let(cb_edit_value(reg, path, data_name, data_type, new_value), LAMBDA e :
                 Then(g, IF e.status = "raised" THEN e
                         ELSE [e EXCEPT !.value = <<TRUE>>,
                                        !.bar = "Value added successfully"])))

\* Application.cb_add_key(path, name)
cb_add_key(reg, path, name) ==
    Let(add_key(reg, path, name), LAMBDA a :
        Viewed(a, FALSE, <<>>, IF a.status = "returned" THEN "Key added successfully" ELSE ""))

\* one item of the Treeview of the keys area
KeyItem(parent, text, explicit) == [parent |-> parent, text |-> text, explicit |-> explicit]

RECURSIVE build_registry_tree(_, _, _, _)
\* RegistryKeysView.build_registry_tree(key, tree_parent) on the items so
\* far: the key's item, then its sub_keys in the order of the dictionary
build_registry_tree(t, key, tree_parent, items) ==
    LET inserted == Append(items, KeyItem(tree_parent, t[key].name, t[key].is_explicit))
        sub_tree == Len(inserted)
        F[i \in 0..Len(t)] ==
            IF i = 0 THEN inserted
            ELSE IF t[i].parent = key THEN build_registry_tree(t, i, sub_tree, F[i - 1])
                 ELSE F[i - 1]
    IN  F[Len(t)]

\* set_registry_keys that builds the tree of a root without sub keys as well
set_registry_keys_unguarded(t) == build_registry_tree(t, 1, 0, <<>>)

\* View.set_registry_keys(root_key) on the keys area just reset
set_registry_keys(t) ==
    IF SubKeysOf(t, 1) # {} THEN build_registry_tree(t, 1, 0, <<>>) ELSE <<>>

RECURSIVE RegistryKeyItem_path(_, _)
\* RegistryKeyItem.path: the texts from the root item down to the item
RegistryKeyItem_path(items, id) ==
    IF items[id].parent = 0 THEN items[id].text
    ELSE RegistryKeyItem_path(items, items[id].parent) \o REGISTRY_PATH_SEPARATOR
             \o items[id].text

HexDigits == "0123456789abcdef"

RECURSIVE ToHex(_)
\* the hexadecimal digits of n >= 0
ToHex(n) ==
    IF n < 16 THEN CharAt(HexDigits, n + 1)
    ELSE ToHex(n \div 16) \o CharAt(HexDigits, (n % 16) + 1)

RECURSIVE ZeroFill(_, _)
ZeroFill(s, width) == IF Len(s) >= width THEN s ELSE ZeroFill("0" \o s, width)

\* RegistryDetailsView.data_type_attributes[data_type].display_format(data):
\* str for the string types, f"{val:#0{10}x} ({val})" for REG_DWORD
display_format(data_type, data) ==
    IF data.kind = "int"
    THEN "0x" \o ZeroFill(ToHex(data.n), 8) \o " (" \o IntToStr(data.n) \o ")"
    ELSE data.s

\* RegistryDetailsView._add_entry(name, data, data_type): the row inserted;
\* empty_name and empty_value are its tags
add_entry(name, data, data_type) ==
    [text        |-> IF name = "" THEN "(Default)" ELSE name,
     data_type   |-> data_type,
     data        |-> IF name = "" /\ data = PyStr("") THEN "(value not set)"
                     ELSE display_format(data_type, data),
     empty_name  |-> name = "",
     empty_value |-> name = "" /\ data = PyStr("")]

\* RegistryValueItem.name
RegistryValueItem_name(row) == IF row.empty_name THEN "" ELSE row.text

RECURSIVE InsertRow(_, _)
\* helper of sort: the row placed before the first row of a greater name
InsertRow(row, rows) ==
    IF Len(rows) = 0 THEN <<row>>
    ELSE IF StrLess(Lower(RegistryValueItem_name(row)), Lower(RegistryValueItem_name(rows[1])))
         THEN <<row>> \o rows
         ELSE <<rows[1]>> \o InsertRow(row, Tail(rows))

RECURSIVE sort(_)
\* RegistryDetailsView._sort: by lower-cased name, rows of equal names in
\* the order they had
sort(rows) ==
    IF Len(rows) = 0 THEN <<>>
    ELSE InsertRow(rows[Len(rows)], sort(SubSeq(rows, 1, Len(rows) - 1)))

\* RegistryDetailsView.show_values(values): the rows of the details area
show_values(values) ==
    LET with_default ==
            IF \E i \in 1..Len(values) : values[i].name = "" THEN values
            ELSE <<RegistryValue("", PyStr(""), "REG_SZ")>> \o values
    IN  sort([i \in 1..Len(with_default) |->
                 add_entry(with_default[i].name, with_default[i].data,
                           with_default[i].data_type)])

(***************************************************************************)
(* The state.                                                              *)
(***************************************************************************)
VARIABLES
    registry,             \* the registry store (winreg)
    ignore_missing_keys,  \* Model.ignore_missing_keys
    pc,                   \* "idle", or "for" inside the loop of get_registry_tree
    key_paths,            \* the argument of the last call
    reduced_key_paths,    \* get_registry_tree: reduced_key_paths
    pending,              \* the reduced paths the loop has not reached yet
    built,                \* the reduced paths whose keys were built
    computer,             \* get_registry_tree: computer
    outcome,              \* of the last call: "none", "returned", "raised"
    tree,                 \* the RegistryKey tree the last call returned
    call,                 \* the last value operation called and its arguments
    result,               \* what that operation returned or raised, and the store before it
    open_handles,         \* how many handles the last call opened and has not closed
    key_list,             \* Configuration.key_list
    keys_tree,            \* RegistryKeysView.tree: its items, in the order of their insertion
    selection,            \* RegistryKeysView.tree.selection(): the selected item, 0 if none
    address,              \* the text of the address bar
    details,              \* RegistryDetailsView.details: its rows
    status,               \* the text of the status bar
    error,                \* the exception that left the last event handler, "" if none
    message_box           \* the error the last event handler displayed, "" if none

\* the variables of the view and of the configuration
view_vars == <<key_list, keys_tree, selection, address, details, status, error, message_box>>

vars == <<registry, ignore_missing_keys, pc, key_paths, reduced_key_paths, pending, built,
          computer, outcome, tree, call, result, open_handles, key_list, keys_tree, selection,
          address, details, status, error, message_box>>

\* no Application is constructed: no key list, an empty view
NoView ==
    /\ key_list = <<>>
    /\ keys_tree = <<>>
    /\ selection = 0
    /\ address = ""
    /\ details = <<>>
    /\ status = ""
    /\ error = ""
    /\ message_box = ""

\* no value operation was called yet
NoCall == [n |-> 0, op |-> "", key |-> "", name |-> "", type |-> "", data |-> PyStr("")]

NoResult ==
    [status |-> "none", exception |-> "", message |-> "", cause |-> "", value |-> <<>>,
     store_calls |-> <<>>, prior |-> <<>>]

\* The registry the model runs against.
InitialRegistry == <<
    Key(0, "HKEY_CLASSES_ROOT", <<>>),
    Key(1, "a",  <<Val("", "v", "REG_SZ")>>),
    Key(2, "b",  <<Val("n", "01", "REG_DWORD")>>),
    Key(1, "ab", <<Val("t", "x", "REG_SZ")>>),
    Key(0, "HKEY_CURRENT_USER", <<>>),
    Key(5, "x",  <<>>),
    Key(6, "y",  <<Val("n", "s", "REG_SZ")>>),
    Key(0, "HKEY_USERS", <<>>),
    Key(8, "s",  <<>>),
    Key(9, "f",  <<Val("k", "1", "REG_DWORD")>>),
    Key(9, "g",  <<>>) >>

\* The key paths a caller hands to get_registry_tree.
PathPool == {
    "HKEY_CLASSES_ROOT",
    "HKEY_CLASSES_ROOT\\a",
    "HKEY_CLASSES_ROOT\\a\\b",
    "HKEY_CLASSES_ROOT\\ab",
    "HKCR\\a",
    "HKEY_CURRENT_USER",
    "HKEY_CURRENT_USER\\x",
    "HKEY_CURRENT_USER\\x\\y",
    "HKEY_CURRENT_USER\\x\\zz",
    "HKCU\\x",
    "HKEY_USERS\\s\\f",
    "Computer\\HKEY_USERS\\s\\g",
    "FOO\\a",
    "HKEY_CURRENT_USERx\\y" }

\* The key paths handed to _remove_contained_paths on its own.
ReducePool == {
    "HKEY_CLASSES_ROOT\\a",
    "HKEY_CLASSES_ROOT\\a\\b",
    "HKEY_CLASSES_ROOT\\a\\",
    "HKEY_CLASSES_ROOT\\ab",
    "HKCR\\a",
    "HKCU\\x",
    "HKEY_CURRENT_USER\\x",
    "HKEY_CURRENT_USER\\x\\y",
    "HKLM\\m",
    "HKEY_LOCAL_MACHINE\\m",
    "HKU\\s",
    "HKEY_USERS\\s",
    "HKCC\\c",
    "HKEY_CURRENT_CONFIG\\c",
    "x\\HKCR",
    "Computer\\HKCR\\Computer",
    "Computer\\HKCR\\Computer\\x" }

\* the lists of at most n elements of S
ListsUpTo(S, n) == UNION {[1..k -> S] : k \in 0..n}

\* The Model is constructed with either policy, and the key list it is asked
\* for is any list of the pool.
Init ==
    /\ registry = InitialRegistry
    /\ ignore_missing_keys \in BOOLEAN
    /\ pc = "idle"
    /\ key_paths \in ListsUpTo(PathPool, MaxPaths)
    /\ reduced_key_paths = {}
    /\ pending = {}
    /\ built = {}
    /\ computer = <<>>
    /\ outcome = "none"
    /\ tree = <<>>
    /\ call = NoCall
    /\ result = NoResult
    /\ open_handles = 0
    /\ NoView

(***************************************************************************)
(* Model.get_registry_tree(key_paths), one step per iteration of its loop. *)
(***************************************************************************)
\* the call: computer created, the paths reduced, the loop entered
GetRegistryTree ==
    /\ pc = "idle"
    /\ pc' = "for"
    /\ computer' = <<RegistryKey(COMPUTER_ROOT_STR)>>
    /\ reduced_key_paths' = remove_contained_paths(key_paths)
    /\ pending' = reduced_key_paths'
    /\ built' = {}
    /\ outcome' = "none"
    /\ tree' = <<>>
    /\ open_handles' = 0
    /\ UNCHANGED view_vars
    /\ UNCHANGED <<registry, ignore_missing_keys, key_paths, call, result>>

\* one iteration: self._build_key_structure(computer, key_path); the set is
\* iterated in an order the program does not choose.  An exception leaves
\* the loop and get_registry_tree raises RuntimeError.
BuildKeyStructure(key_path) ==
    /\ pc = "for"
    /\ key_path \in pending
    /\ \E r \in {build_key_structure(computer, registry, ignore_missing_keys, key_path)} :
           /\ computer' = r.t
           /\ open_handles' = open_handles + OpenCount(r.handles)
           /\ IF r.status = "raised"
              THEN /\ pc' = "idle"
                   /\ outcome' = "raised"
                   /\ pending' = {}
                   /\ built' = built
              ELSE /\ pc' = "for"
                   /\ outcome' = outcome
                   /\ pending' = pending \ {key_path}
                   /\ built' = IF r.status = "built" THEN built \cup {key_path} ELSE built
    /\ UNCHANGED view_vars
    /\ UNCHANGED <<registry, ignore_missing_keys, key_paths, reduced_key_paths, tree, call,
                   result>>

\* the loop is over: return computer
Return ==
    /\ pc = "for"
    /\ pending = {}
    /\ pc' = "idle"
    /\ outcome' = "returned"
    /\ tree' = computer
    /\ UNCHANGED view_vars
    /\ UNCHANGED <<registry, ignore_missing_keys, key_paths, reduced_key_paths, pending, built,
                   computer, call, result, open_handles>>

Next ==
    \/ GetRegistryTree
    \/ \E key_path \in pending : BuildKeyStructure(key_path)
    \/ Return

Spec == Init /\ [][Next]_vars

(***************************************************************************)
(* Model._remove_contained_paths(key_paths) called on its own.             *)
(***************************************************************************)
InitReduce ==
    /\ registry = InitialRegistry
    /\ ignore_missing_keys = FALSE
    /\ pc = "idle"
    /\ key_paths \in ListsUpTo(ReducePool, MaxReducePaths)
    /\ reduced_key_paths = {}
    /\ pending = {}
    /\ built = {}
    /\ computer = <<>>
    /\ outcome = "none"
    /\ tree = <<>>
    /\ call = NoCall
    /\ result = NoResult
    /\ open_handles = 0
    /\ NoView

RemoveContainedPaths ==
    /\ outcome = "none"
    /\ reduced_key_paths' = remove_contained_paths(key_paths)
    /\ outcome' = "returned"
    /\ UNCHANGED view_vars
    /\ UNCHANGED <<registry, ignore_missing_keys, pc, key_paths, pending, built, computer, tree,
                   call, result, open_handles>>

NextReduce == RemoveContainedPaths

SpecReduce == InitReduce /\ [][NextReduce]_vars

(***************************************************************************)
(* Model.get_registry_tree(key_paths) on a registry one of whose keys the   *)
(* store refuses to open.                                                  *)
(***************************************************************************)
\* The keys of InitialRegistry of which one is refused:
\* HKEY_CURRENT_USER\x and HKEY_CURRENT_USER\x\y.
DeniedKeyPool == {6, 7}

\* The key paths handed to get_registry_tree on that registry.
DeniedPathPool == {
    "HKEY_CURRENT_USER",
    "HKEY_CURRENT_USER\\x",
    "HKEY_CURRENT_USER\\x\\y",
    "HKEY_CURRENT_USER\\x\\zz",
    "HKEY_USERS\\s\\f" }

InitDenied ==
    /\ registry \in {[InitialRegistry EXCEPT ![k].denied = TRUE] : k \in DeniedKeyPool}
    /\ ignore_missing_keys \in BOOLEAN
    /\ pc = "idle"
    /\ key_paths \in ListsUpTo(DeniedPathPool, MaxPaths)
    /\ reduced_key_paths = {}
    /\ pending = {}
    /\ built = {}
    /\ computer = <<>>
    /\ outcome = "none"
    /\ tree = <<>>
    /\ call = NoCall
    /\ result = NoResult
    /\ open_handles = 0
    /\ NoView

SpecDenied == InitDenied /\ [][Next]_vars

(***************************************************************************)
(* Model.get_registry_tree(key_paths) on key paths that differ in letter   *)
(* case.                                                                   *)
(***************************************************************************)
\* The key paths handed to get_registry_tree: keys of the registry, spelled
\* as the registry spells them and in another letter case.
CasePathPool == {
    "HKEY_CLASSES_ROOT\\a",
    "HKEY_CLASSES_ROOT\\A",
    "HKEY_CLASSES_ROOT\\a\\b",
    "HKEY_CLASSES_ROOT\\A\\b",
    "HKEY_USERS\\s\\g",
    "HKEY_USERS\\S\\g" }

InitCase ==
    /\ registry = InitialRegistry
    /\ ignore_missing_keys \in BOOLEAN
    /\ pc = "idle"
    /\ key_paths \in ListsUpTo(CasePathPool, MaxPaths)
    /\ reduced_key_paths = {}
    /\ pending = {}
    /\ built = {}
    /\ computer = <<>>
    /\ outcome = "none"
    /\ tree = <<>>
    /\ call = NoCall
    /\ result = NoResult
    /\ open_handles = 0
    /\ NoView

SpecCase == InitCase /\ [][Next]_vars

(***************************************************************************)
(* The value operations, called one after another on the same registry.    *)
(***************************************************************************)
\* how many value operations a behaviour calls
MaxCalls == 2

\* The registry they start on: InitialRegistry and, under HKEY_CLASSES_ROOT,
\* a key named Computer with a subkey c.
ValuesRegistry ==
    InitialRegistry \o
    << Key(1, "Computer", <<>>),
       Key(12, "c", <<Val("n", "5", "REG_DWORD")>>) >>

\* The key paths handed to the value operations.
ValueKeyPool == {
    "HKEY_CLASSES_ROOT\\a",
    "Computer\\HKEY_CLASSES_ROOT\\a\\b",
    "HKCU",
    "HKEY_CURRENT_USER\\x\\zz",
    "Computer\\HKEY_CLASSES_ROOT\\Computer",
    "Computer\\HKEY_CLASSES_ROOT\\Computer\\a",
    "Computer\\HKEY_CLASSES_ROOT\\Computer\\c" }

\* The value names handed to them.
ValueNamePool == {"", "n"}

\* The value types and data handed to edit_registry_key_value; REG_FOO is
\* no type of winreg.
ValueDataPool == {
    <<"REG_SZ", PyStr("w")>>,
    <<"REG_DWORD", PyInt(7)>>,
    <<"REG_FOO", PyStr("w")>> }

\* The key names handed to add_key.
KeyNamePool == {"b", "B"}

InitValues ==
    /\ registry = ValuesRegistry
    /\ ignore_missing_keys = FALSE
    /\ pc = "idle"
    /\ key_paths = <<>>
    /\ reduced_key_paths = {}
    /\ pending = {}
    /\ built = {}
    /\ computer = <<>>
    /\ outcome = "none"
    /\ tree = <<>>
    /\ call = NoCall
    /\ result = NoResult
    /\ open_handles = 0
    /\ NoView

\* a value operation can be called
CanCall == pc = "idle" /\ call.n < MaxCalls

\* the operation op called with these arguments ends as r says
Operation(op, key, name, type, data, r) ==
    /\ call' = [n |-> call.n + 1, op |-> op, key |-> key, name |-> name, type |-> type,
                data |-> data]
    /\ result' = [status |-> r.status, exception |-> r.exception, message |-> r.message,
                  cause |-> r.cause, value |-> r.value, store_calls |-> r.store_calls,
                  prior |-> registry]
    /\ registry' = r.reg
    /\ open_handles' = OpenCount(r.handles)
    /\ UNCHANGED view_vars
    /\ UNCHANGED <<ignore_missing_keys, pc, key_paths, reduced_key_paths, pending, built,
                   computer, outcome, tree>>

GetRegistryKeyValues(key) ==
    /\ CanCall
    /\ \E r \in {get_registry_key_values(registry, key)} :
           Operation("get_registry_key_values", key, "", "", PyStr(""), r)

GetRegistryKeyValue(key, value_name) ==
    /\ CanCall
    /\ \E r \in {get_registry_key_value(registry, key, value_name)} :
           Operation("get_registry_key_value", key, value_name, "", PyStr(""), r)

EditRegistryKeyValue(key, value_name, value_type, new_value) ==
    /\ CanCall
    /\ \E r \in {edit_registry_key_value(registry, key, value_name, value_type, new_value)} :
           Operation("edit_registry_key_value", key, value_name, value_type, new_value, r)

AddKey(key, name) ==
    /\ CanCall
    /\ \E r \in {add_key(registry, key, name)} :
           Operation("add_key", key, name, "", PyStr(""), r)

ModelDeleteValue(key, value_name) ==
    /\ CanCall
    /\ \E r \in {delete_value(registry, key, value_name)} :
           Operation("delete_value", key, value_name, "", PyStr(""), r)

CbDeleteValue(path, data_name) ==
    /\ CanCall
    /\ \E r \in {cb_delete_value(registry, path, data_name)} :
           Operation("cb_delete_value", path, data_name, "", PyStr(""), r)

NextValues ==
    \/ \E key \in ValueKeyPool : GetRegistryKeyValues(key)
    \/ \E key \in ValueKeyPool, value_name \in ValueNamePool :
            GetRegistryKeyValue(key, value_name)
    \/ \E key \in ValueKeyPool, value_name \in ValueNamePool, td \in ValueDataPool :
            EditRegistryKeyValue(key, value_name, td[1], td[2])
    \/ \E key \in ValueKeyPool, name \in KeyNamePool : AddKey(key, name)
    \/ \E key \in ValueKeyPool, value_name \in ValueNamePool :
            ModelDeleteValue(key, value_name)
    \/ \E path \in ValueKeyPool, data_name \in ValueNamePool :
            CbDeleteValue(path, data_name)

SpecValues == InitValues /\ [][NextValues]_vars

(***************************************************************************)
(* Every operation of Model that opens handles: get_registry_tree and the  *)
(* value operations, called one after another.                             *)
(***************************************************************************)
\* How many value operations a behaviour calls between its tree calls.
MaxHandleCalls == 1

\* The key paths handed to get_registry_tree: a key with values and a
\* subkey, and a key that is missing.
HandlePathPool == {"HKEY_CLASSES_ROOT\\a", "HKEY_CURRENT_USER\\x\\zz"}

\* The key paths handed to the value operations: a key, and a path whose
\* hive exists while its key does not.
HandleKeyPool == {"HKEY_CLASSES_ROOT\\a", "HKEY_CURRENT_USER\\x\\zz"}

InitHandles ==
    /\ registry = InitialRegistry
    /\ ignore_missing_keys \in BOOLEAN
    /\ pc = "idle"
    /\ key_paths \in ListsUpTo(HandlePathPool, MaxPaths)
    /\ reduced_key_paths = {}
    /\ pending = {}
    /\ built = {}
    /\ computer = <<>>
    /\ outcome = "none"
    /\ tree = <<>>
    /\ call = NoCall
    /\ result = NoResult
    /\ open_handles = 0
    /\ NoView

\* a value operation can be called: get_registry_tree is not running
CanCallHandles == pc = "idle" /\ call.n < MaxHandleCalls

NextHandles ==
    \/ GetRegistryTree
    \/ \E key_path \in pending : BuildKeyStructure(key_path)
    \/ Return
    \/ CanCallHandles /\ \E key \in HandleKeyPool : GetRegistryKeyValues(key)
    \/ CanCallHandles /\ \E key \in HandleKeyPool : GetRegistryKeyValue(key, "n")
    \/ CanCallHandles /\ \E key \in HandleKeyPool :
           EditRegistryKeyValue(key, "n", "REG_SZ", PyStr("w"))
    \/ CanCallHandles /\ \E key \in HandleKeyPool, name \in {"b", "k"} : AddKey(key, name)
    \/ CanCallHandles /\ \E key \in HandleKeyPool : ModelDeleteValue(key, "")

SpecHandles == InitHandles /\ [][NextHandles]_vars

(***************************************************************************)
(* Model.get_registry_tree(key_paths) while another process deletes keys   *)
(* of the registry.                                                        *)
(***************************************************************************)
\* The key paths handed to get_registry_tree.
RacePathPool == {
    "HKEY_CLASSES_ROOT\\a",
    "HKEY_USERS\\s\\f",
    "HKEY_CURRENT_USER\\x\\zz" }

\* The keys the other process deletes: a requested key, a subkey of one and
\* an ancestor of one.
RaceVictimPool == {
    <<"HKEY_CLASSES_ROOT", "a">>,
    <<"HKEY_CLASSES_ROOT", "a", "b">>,
    <<"HKEY_USERS", "s">> }

\* the registry once the key element k is removed from its parent: the
\* element and what is below it can no longer be reached from a hive
remove_key(reg, k) == [reg EXCEPT ![k].parent = -1]

InitRace ==
    /\ registry = InitialRegistry
    /\ ignore_missing_keys \in BOOLEAN
    /\ pc = "idle"
    /\ key_paths \in ListsUpTo(RacePathPool, MaxPaths)
    /\ reduced_key_paths = {}
    /\ pending = {}
    /\ built = {}
    /\ computer = <<>>
    /\ outcome = "none"
    /\ tree = <<>>
    /\ call = NoCall
    /\ result = NoResult
    /\ open_handles = 0
    /\ NoView

\* one iteration of the loop during which the other process deletes the key
\* victim, after the iteration's existence probe and before the iteration
\* opens the registry again
BuildKeyStructureRacing(key_path, victim) ==
    /\ pc = "for"
    /\ key_path \in pending
    /\ FindPath(registry, 0, victim) # 0
    /\ registry' = remove_key(registry, FindPath(registry, 0, victim))
    /\ \E r \in {build_key_structure_racing(computer, registry, registry', ignore_missing_keys,
                                            key_path)} :
           /\ computer' = r.t
           /\ open_handles' = open_handles + OpenCount(r.handles)
           /\ IF r.status = "raised"
              THEN /\ pc' = "idle"
                   /\ outcome' = "raised"
                   /\ pending' = {}
                   /\ built' = built
              ELSE /\ pc' = "for"
                   /\ outcome' = outcome
                   /\ pending' = pending \ {key_path}
                   /\ built' = IF r.status = "built" THEN built \cup {key_path} ELSE built
    /\ UNCHANGED view_vars
    /\ UNCHANGED <<ignore_missing_keys, key_paths, reduced_key_paths, tree, call, result>>

NextRace ==
    \/ GetRegistryTree
    \/ \E key_path \in RacePathPool : BuildKeyStructure(key_path)
    \/ \E key_path \in RacePathPool, victim \in RaceVictimPool :
           BuildKeyStructureRacing(key_path, victim)
    \/ Return

SpecRace == InitRace /\ [][NextRace]_vars

(***************************************************************************)
(* The application: Application with its Model, its Configuration and its  *)
(* View, and the events of the user as the view components hand them to    *)
(* the callbacks.  EDIT_VALUE is dispatched by the edit dialog alone,       *)
(* which _popup_edit_value_window is to open; cb_edit_value is also what   *)
(* cb_add_value writes with.                                               *)
(***************************************************************************)
\* how many events the user causes
MaxEvents == 3

\* The key lists of the configuration file and of the key list dialog; a
\* list holds one key path, so that the order in which get_registry_tree
\* takes the reduced paths does not matter.
AppKeyListPool == {
    <<>>,
    <<"HKEY_CLASSES_ROOT", "">>,
    <<"HKEY_USERS\\s\\f">>,
    <<"FOO\\a">> }

\* The names the user enters for a new value and the types the menu offers
\* (RegistryDetailsView.menu_item_to_winreg_data_type_str).
NewValueNamePool == {"m", "n"}
NewValueTypes == {"REG_SZ", "REG_DWORD"}

\* The names the user enters for a new key.
NewKeyNamePool == {"b", "k", "k\\j"}

\* Application.populate_view: what get_registry_tree gives for the key list
populate_view(reg, ignore, list) == get_registry_tree(reg, ignore, list)

\* Application.__init__: the Model ignores missing keys, the view is
\* populated from the key list of the configuration file (the constructor
\* raises if get_registry_tree does)
InitApp ==
    /\ registry = ValuesRegistry
    /\ ignore_missing_keys = TRUE
    /\ pc = "idle"
    /\ key_paths = <<>>
    /\ reduced_key_paths = {}
    /\ pending = {}
    /\ built = {}
    /\ computer = <<>>
    /\ outcome = "none"
    /\ tree = <<>>
    /\ call = NoCall
    /\ result = NoResult
    /\ key_list \in {Configuration_key_list(l) : l \in AppKeyListPool}
    /\ \E t \in {populate_view(registry, ignore_missing_keys, key_list)} :
           /\ t.outcome = "returned"
           /\ open_handles = OpenCount(t.handles)
           /\ keys_tree = set_registry_keys(t.t)
           /\ status = IF SubKeysOf(t.t, 1) = {}
                       THEN "Key list empty, please provide key list via menu" ELSE ""
    /\ selection = 0
    /\ address = ""
    /\ details = <<>>
    /\ error = ""
    /\ message_box = ""

\* the user can cause an event
CanHandle == call.n < MaxEvents

\* the callback op called with these arguments ends as r says
Handled(op, path, name, type, data, r) ==
    /\ call' = [n |-> call.n + 1, op |-> op, key |-> path, name |-> name, type |-> type,
                data |-> data]
    /\ result' = [status |-> r.status, exception |-> r.exception, message |-> r.message,
                  cause |-> r.cause, value |-> r.value, store_calls |-> r.store_calls,
                  prior |-> registry]
    /\ registry' = r.reg
    /\ open_handles' = OpenCount(r.handles)
    /\ UNCHANGED <<ignore_missing_keys, pc, key_paths, reduced_key_paths, pending, built,
                   computer, outcome, tree>>

\* the path of the selected item of the keys area
SelectedPath == RegistryKeyItem_path(keys_tree, selection)

\* RegistryKeysView._registry_key_selected: the user selects an item
KeySelected(item) ==
    /\ CanHandle
    /\ item \in DOMAIN keys_tree
    /\ selection' = item
    /\ \E r \in {cb_key_selected(registry, RegistryKeyItem_path(keys_tree, item),
                                 keys_tree[item].explicit)} :
           /\ Handled("cb_key_selected", RegistryKeyItem_path(keys_tree, item), "", "",
                      PyStr(""), r)
           /\ details' = IF r.display THEN show_values(r.values)
                         ELSE IF r.status = "returned" THEN <<>> ELSE details
           /\ status' = r.bar
           /\ error' = r.exception
           /\ address' = IF r.status = "returned" THEN RegistryKeyItem_path(keys_tree, item)
                         ELSE address
    /\ message_box' = ""
    /\ UNCHANGED <<key_list, keys_tree>>

\* View.refresh: F5 or the menu; IndexError, no item selected, is passed over
Refresh ==
    /\ CanHandle
    /\ \E r \in {IF selection = 0 THEN Viewed(Returns(registry, <<>>, <<>>), FALSE, <<>>, status)
                 ELSE cb_refresh(registry, SelectedPath)} :
           /\ Handled("cb_refresh", IF selection = 0 THEN "" ELSE SelectedPath, "", "",
                      PyStr(""), r)
           /\ details' = IF r.display THEN show_values(r.values) ELSE details
           /\ status' = r.bar
           /\ error' = r.exception
    /\ message_box' = ""
    /\ UNCHANGED <<key_list, keys_tree, selection, address>>

\* RegistryDetailsView._popup_edit_value_window on the row the user double
\* clicks, 0 if no row is selected (IndexError, passed over): the edit
\* window class of the type is looked up, then the callback of
\* SHOW_EDIT_VALUE in the callbacks table
PopupEditValueWindow(row) ==
    /\ CanHandle
    /\ row \in 0..Len(details)
    /\ Handled("_popup_edit_value_window", IF selection = 0 THEN "" ELSE SelectedPath,
               IF row = 0 THEN "" ELSE RegistryValueItem_name(details[row]),
               IF row = 0 THEN "" ELSE details[row].data_type, PyStr(""),
               Returns(registry, <<>>, <<>>))
    /\ error' = IF row = 0 THEN ""
                ELSE IF details[row].data_type \notin {"REG_SZ", "REG_DWORD",
                                                       "REG_DWORD_LITTLE_ENDIAN"}
                THEN "ValueError"
                ELSE IF "SHOW_EDIT_VALUE" \notin Application_callbacks THEN "KeyError"
                ELSE ""
    /\ message_box' = ""
    /\ UNCHANGED <<key_list, keys_tree, selection, address, details, status>>

\* RegistryDetailsView._delete_value on the row the user has selected, 0 if
\* none, the question answered with yes; any exception is displayed
DeleteValueRow(row) ==
    /\ CanHandle
    /\ row \in 0..Len(details)
    /\ IF selection = 0 \/ row = 0
       THEN /\ Handled("cb_delete_value", "", "", "", PyStr(""), Returns(registry, <<>>, <<>>))
            /\ message_box' = "Could not delete value"
            /\ UNCHANGED <<details, status>>
       ELSE \E r \in {cb_delete_value(registry, SelectedPath,
                                      RegistryValueItem_name(details[row]))} :
                /\ Handled("cb_delete_value", SelectedPath,
                           RegistryValueItem_name(details[row]), "", PyStr(""), r)
                /\ details' = IF r.status = "returned" THEN show_values(r.value) ELSE details
                /\ status' = IF r.status = "returned" THEN "Value deleted successfully" ELSE ""
                /\ message_box' = IF r.status = "returned" THEN ""
                                  ELSE "Could not delete value"
    /\ error' = ""
    /\ UNCHANGED <<key_list, keys_tree, selection, address>>

\* the menus of the details area are shown only while the selected key is
\* explicit (RegistryDetailsView._show_menu)
MenuShown == selection # 0 /\ keys_tree[selection].explicit

\* RegistryDetailsView._new_item for a value: the name asked for, then
\* ADD_VALUE with the empty string as data; any exception is displayed
NewValue(value_name, data_type) ==
    /\ CanHandle
    /\ MenuShown
    /\ \E r \in {cb_add_value(registry, SelectedPath, value_name, data_type, PyStr(""))} :
           /\ Handled("cb_add_value", SelectedPath, value_name, data_type, PyStr(""), r)
           /\ details' = IF r.display THEN show_values(r.values) ELSE details
           /\ status' = r.bar
           /\ message_box' = IF r.status = "returned" THEN "" ELSE r.message
    /\ error' = ""
    /\ UNCHANGED <<key_list, keys_tree, selection, address>>

\* RegistryKeysView.create_new_key: the name asked for, then ADD_KEY and, if
\* that returns, the new item inserted under the selected one
NewKey(key_name) ==
    /\ CanHandle
    /\ MenuShown
    /\ \E r \in {cb_add_key(registry, SelectedPath, key_name)} :
           /\ Handled("cb_add_key", SelectedPath, key_name, "", PyStr(""), r)
           /\ keys_tree' = IF r.status = "returned"
                           THEN Append(keys_tree, KeyItem(selection, key_name, TRUE))
                           ELSE keys_tree
           /\ status' = r.bar
           /\ message_box' = IF r.status = "returned" THEN "" ELSE "Could not add key"
    /\ error' = ""
    /\ UNCHANGED <<key_list, selection, address, details>>

\* ConfigureKeyListView.submit: cb_set_key_list(new_list) saves the list and
\* populates the view anew (View.reset, get_registry_tree,
\* View.set_registry_keys)
SetKeyList(new_list) ==
    /\ CanHandle
    /\ key_list' = Configuration_key_list(new_list)
    /\ \E t \in {populate_view(registry, ignore_missing_keys, key_list')} :
           /\ Handled("cb_set_key_list", "", "", "", PyStr(""),
                      IF t.outcome = "returned"
                      THEN [Returns(registry, <<>>, <<>>) EXCEPT !.handles = t.handles]
                      ELSE [Raises(registry, "Failed to retrieve registry tree", "", <<>>)
                                EXCEPT !.exception = "RuntimeError", !.handles = t.handles])
           /\ keys_tree' = IF t.outcome = "returned" THEN set_registry_keys(t.t) ELSE <<>>
           /\ status' = IF t.outcome = "returned" /\ SubKeysOf(t.t, 1) = {}
                        THEN "Key list empty, please provide key list via menu" ELSE status
           /\ error' = IF t.outcome = "returned" THEN "" ELSE "RuntimeError"
    /\ selection' = 0
    /\ details' = <<>>
    /\ message_box' = ""
    /\ UNCHANGED address

NextApp ==
    \/ \E item \in 1..Len(keys_tree) : KeySelected(item)
    \/ Refresh
    \/ \E row \in 0..Len(details) : PopupEditValueWindow(row)
    \/ \E row \in 0..Len(details) : DeleteValueRow(row)
    \/ \E value_name \in NewValueNamePool, data_type \in NewValueTypes :
           NewValue(value_name, data_type)
    \/ \E key_name \in NewKeyNamePool : NewKey(key_name)
    \/ \E new_list \in AppKeyListPool : SetKeyList(new_list)

SpecApp == InitApp /\ [][NextApp]_vars

(***************************************************************************)
(* The operations of a RegistryKey, called by a user of common.py on the   *)
(* keys of one tree, starting from a single key without children and       *)
(* values.                                                                 *)
(***************************************************************************)
\* How many RegistryKey operations a behaviour calls.
MaxKeyCalls == 3

\* The names of the children asked for and added.
SubKeyNamePool == {"a", "A", "b"}

\* The values added.
KeyValuePool ==
    {RegistryValue("n", PyStr("v"), "REG_SZ"), RegistryValue("N", PyInt(7), "REG_DWORD"),
     RegistryValue("", PyStr("w"), "REG_SZ")}

InitKey ==
    /\ registry = InitialRegistry
    /\ ignore_missing_keys = FALSE
    /\ pc = "idle"
    /\ key_paths = <<>>
    /\ reduced_key_paths = {}
    /\ pending = {}
    /\ built = {}
    /\ computer = <<>>
    /\ outcome = "none"
    /\ tree = <<RegistryKey("k")>>
    /\ call = NoCall
    /\ result = NoResult
    /\ open_handles = 0
    /\ NoView

\* a RegistryKey operation can be called
CanCallKey == pc = "idle" /\ call.n < MaxKeyCalls

\* the operation op called on key self with this name ends as r says; value
\* is the key it was called on and the key it returned (0 if none)
KeyOperation(op, self, name, r, returned) ==
    /\ call' = [NoCall EXCEPT !.n = call.n + 1, !.op = op, !.name = name]
    /\ result' = [NoResult EXCEPT !.status = IF r.err = "" THEN "returned" ELSE "raised",
                                  !.exception = r.err,
                                  !.value = <<self, returned>>,
                                  !.prior = tree]
    /\ tree' = r.t
    /\ UNCHANGED view_vars
    /\ UNCHANGED <<registry, ignore_missing_keys, pc, key_paths, reduced_key_paths, pending,
                   built, computer, outcome, open_handles>>

GetSubKey(self, sub_key_name) ==
    /\ CanCallKey
    /\ \E r \in {get_sub_key(tree, self, sub_key_name, TRUE)} :
           KeyOperation("get_sub_key", self, sub_key_name, r, r.id)

AddSubKey(self, sub_key_name) ==
    /\ CanCallKey
    /\ \E r \in {add_sub_key(tree, self, RegistryKey(sub_key_name))} :
           KeyOperation("_add_sub_key", self, sub_key_name, r, 0)

AddValue(self, value) ==
    /\ CanCallKey
    /\ \E r \in {add_value(tree, self, value)} :
           KeyOperation("add_value", self, value.name, r, 0)

NextKey ==
    \/ \E self \in 1..Len(tree), sub_key_name \in SubKeyNamePool : GetSubKey(self, sub_key_name)
    \/ \E self \in 1..Len(tree), sub_key_name \in SubKeyNamePool : AddSubKey(self, sub_key_name)
    \/ \E self \in 1..Len(tree), value \in KeyValuePool : AddValue(self, value)

SpecKey == InitKey /\ [][NextKey]_vars

(***************************************************************************)
(* Vocabulary of the properties: the registry key a requested path names,  *)
(* and positions in the registry and in the tree.                          *)
(***************************************************************************)
\* the segments of the key a requested path names: the leading root label
\* and trailing separators set aside, a leading hive abbreviation spelled out
NamedSegments(path) ==
    LET prefix   == COMPUTER_ROOT_STR \o REGISTRY_PATH_SEPARATOR
        unrooted == IF StartsWith(path, prefix) THEN SubSeq(path, Len(prefix) + 1, Len(path)) ELSE path
        segs     == Split(RStrip(unrooted, REGISTRY_PATH_SEPARATOR), REGISTRY_PATH_SEPARATOR)
    IN  IF IsRootKeyShort(segs[1]) THEN <<ROOT_KEY_SHORT(segs[1])>> \o Tail(segs) ELSE segs

\* the registry key a requested path names, 0 if the registry has none
NamedKey(reg, path) == FindPath(reg, 0, NamedSegments(path))

RECURSIVE StorePath(_, _)
\* the names from the hive down to registry key k
StorePath(reg, k) == IF k = 0 THEN <<>> ELSE Append(StorePath(reg, reg[k].parent), reg[k].name)

RECURSIVE StoreAncestors(_, _)
\* the registry keys strictly above k
StoreAncestors(reg, k) ==
    IF k = 0 \/ reg[k].parent = 0 THEN {}
    ELSE {reg[k].parent} \cup StoreAncestors(reg, reg[k].parent)

\* registry key k and every key below it
StoreSubtree(reg, k) == {j \in 1..Len(reg) : j = k \/ k \in StoreAncestors(reg, j)}

RECURSIVE NamePath(_, _)
\* the names from below the root down to key i of tree t
NamePath(t, i) == IF t[i].parent = 0 THEN <<>> ELSE Append(NamePath(t, t[i].parent), t[i].name)

RECURSIVE KeyPath(_, _)
\* the dictionary keys from below the root down to key i of tree t
KeyPath(t, i) == IF t[i].parent = 0 THEN <<>> ELSE Append(KeyPath(t, t[i].parent), t[i].key)

IsPrefixSeq(a, b) == Len(a) <= Len(b) /\ SubSeq(b, 1, Len(a)) = a

\* the dictionary keys from below the root down to the leaf of a reduced path
LeafKeyPath(path) ==
    LET segs == Split(path, REGISTRY_PATH_SEPARATOR)
    IN  [j \in 1..Len(segs) |-> Lower(segs[j])]

\* the _values dictionary that mirrors the values of registry key k
MirroredValues(reg, k) ==
    [j \in 1..Len(reg[k].values) |->
        LET e == EnumValue(reg, k, j - 1)
        IN  [key |-> Lower(e.name), value |-> RegistryValue(e.name, e.data, e.type)]]

\* a call of get_registry_tree has ended
CallEnded == pc = "idle" /\ outcome # "none"

\* a call of get_registry_tree has returned its tree
Returned == pc = "idle" /\ outcome = "returned"

(***************************************************************************)
(* Properties of get_registry_tree.                                        *)
(***************************************************************************)
\* C1: with ignore_missing_keys = false and every requested path naming an
\* existing key, get_registry_tree returns a root 'Computer' whose tree holds
\* exactly one key per ancestor of a requested key, without values, and under
\* each requested key the complete mirror of the registry's subtree with the
\* values of every mirrored key, and nothing else.
C1_TreeIsAncestorsPlusMirrors ==
    (/\ CallEnded
     /\ ~ignore_missing_keys
     /\ \A i \in 1..Len(key_paths) : NamedKey(registry, key_paths[i]) # 0)
    =>
    LET Requested == {NamedKey(registry, key_paths[i]) : i \in 1..Len(key_paths)}
        Mirrored  == UNION {StoreSubtree(registry, k) : k \in Requested}
        Ancestors == UNION {StoreAncestors(registry, k) : k \in Requested}
        Expected  == Mirrored \cup Ancestors
    IN  /\ outcome = "returned"
        /\ tree[1].name = COMPUTER_ROOT_STR
        /\ tree[1].values = <<>>
        /\ Len(tree) - 1 = Cardinality(Expected)
        /\ \A k \in Expected : \E i \in 2..Len(tree) :
                /\ NamePath(tree, i) = StorePath(registry, k)
                /\ tree[i].values = IF k \in Mirrored THEN MirroredValues(registry, k) ELSE <<>>

\* the dictionary keys from below the root down to the leaf of every
\* reduced path that was built
BuiltLeafKeyPaths == {LeafKeyPath(p) : p \in built}

\* the dictionary keys from below the root down to every key of the tree
TreeKeyPaths == {<<i, KeyPath(tree, i)>> : i \in 1..Len(tree)}

\* C2: in the returned tree a key is explicit if and only if it is the leaf
\* of a reduced path that was built or lies below such a leaf; the root and
\* the keys that are only ancestors are implicit.
C2_ExplicitIffUnderBuiltLeaf ==
    Returned =>
        \A leaves \in {BuiltLeafKeyPaths} : \A k \in TreeKeyPaths :
            tree[k[1]].is_explicit <=> \E leaf \in leaves : IsPrefixSeq(leaf, k[2])

\* C2 witness: a returned tree with an explicit key and an implicit hive key
C2_Witness ==
    /\ Returned
    /\ \E i \in 2..Len(tree) : tree[i].is_explicit
    /\ \E j \in 2..Len(tree) : ~tree[j].is_explicit

\* C3 as stated: the keys on the path from the Root to a built leaf and the
\* keys of the leaf's subtree are explicit, every other key is implicit.
C3_PathFromRootExplicit ==
    Returned =>
        \A leaves \in {BuiltLeafKeyPaths} : \A k \in TreeKeyPaths :
            tree[k[1]].is_explicit <=>
                \E leaf \in leaves : IsPrefixSeq(k[2], leaf) \/ IsPrefixSeq(leaf, k[2])

\* C3 amended: for every built leaf, the leaf and the keys of its subtree are
\* explicit; the keys strictly above it, the Root among them, are implicit
\* unless they lie under another built leaf; and no key outside the subtrees
\* of the built leaves is explicit.
C3_OnlyLeafSubtreesExplicit ==
    Returned =>
        \A leaves \in {BuiltLeafKeyPaths} : \A k \in TreeKeyPaths :
            /\ \A leaf \in leaves :
                /\ IsPrefixSeq(leaf, k[2]) => tree[k[1]].is_explicit
                /\ (/\ IsPrefixSeq(k[2], leaf)
                    /\ k[2] # leaf
                    /\ \A other \in leaves : ~IsPrefixSeq(other, k[2]))
                   => ~tree[k[1]].is_explicit
            /\ tree[k[1]].is_explicit => \E leaf \in leaves : IsPrefixSeq(leaf, k[2])

\* C3 witness: a returned tree whose built leaf lies two keys below the hive,
\* so that its path from the Root has a hive key and a middle key
C3_Witness ==
    /\ Returned
    /\ \E p \in built : Len(LeafKeyPath(p)) = 3

(***************************************************************************)
(* Properties of _remove_contained_paths (specification SpecReduce).       *)
(***************************************************************************)
RECURSIVE Reverse(_)
\* the list in the opposite order
Reverse(paths) == IF Len(paths) = 0 THEN <<>> ELSE Append(Reverse(Tail(paths)), paths[1])

\* the list with a path separator appended to every path
WithTrailingSeparator(paths) ==
    [i \in 1..Len(paths) |-> paths[i] \o REGISTRY_PATH_SEPARATOR]

\* path d is path a followed by a separator and further segments
IsDescendantPath(d, a) ==
    /\ Len(d) > Len(a) + 1
    /\ StartsWith(d, a \o REGISTRY_PATH_SEPARATOR)

\* the paths of the list, each expanded as _remove_contained_paths expands it
ExpandedKeyPaths == {<<i, expand_key_path(key_paths[i])>> : i \in 1..Len(key_paths)}

\* C4: the reduced set depends only on the set of input paths: the list in
\* reverse order and the list with every path repeated reduce to the same
\* set, a list made of a path a and a descendant a\x reduces to exactly the
\* normalized a, and a trailing separator on the inputs changes nothing.
C4_ReduceDependsOnSetOnly ==
    Returned =>
        /\ remove_contained_paths(Reverse(key_paths)) = reduced_key_paths
        /\ remove_contained_paths(key_paths \o key_paths) = reduced_key_paths
        /\ remove_contained_paths(WithTrailingSeparator(key_paths)) = reduced_key_paths
        /\ \A i, j \in 1..Len(key_paths) :
                (/\ IsDescendantPath(key_paths[j], key_paths[i])
                 /\ \A k \in 1..Len(key_paths) : k \in {i, j})
                => reduced_key_paths = {expand_key_path(key_paths[i])}

\* C5: an expanded input path is missing from the reduced set only when
\* another input path is its ancestor by whole segments (an identical path
\* leaves one copy in the set); two paths of which neither is a segment-wise
\* ancestor of the other both survive.
C5_OnlySegmentDescendantsDiscarded ==
    Returned =>
        \A e \in ExpandedKeyPaths :
            \/ e[2] \in reduced_key_paths
            \/ \E f \in ExpandedKeyPaths : IsDescendantPath(e[2], f[2])

\* C6: a path abbreviation\r expands to full-hive-name\r for each of the
\* five abbreviations, so the list of an abbreviated path and its fully
\* spelled equivalent reduces to that one element; a path whose first
\* segment is not an abbreviation keeps abbreviations found further on.
C6_AbbreviationExpandsToFullName ==
    Returned =>
        \A i \in 1..Len(key_paths) :
            LET first == Split(key_paths[i], REGISTRY_PATH_SEPARATOR)[1]
                rest  == SubSeq(key_paths[i], Len(first) + 1, Len(key_paths[i]))
            IN  /\ IsRootKeyShort(first) =>
                    /\ expand_key_path(key_paths[i]) =
                           RStrip(ROOT_KEY_SHORT(first) \o rest, REGISTRY_PATH_SEPARATOR)
                    /\ (\A j \in 1..Len(key_paths) :
                            key_paths[j] \in {key_paths[i], ROOT_KEY_SHORT(first) \o rest})
                       => Cardinality(reduced_key_paths) = 1
                /\ (~IsRootKeyShort(first) /\ first # COMPUTER_ROOT_STR) =>
                    expand_key_path(key_paths[i]) =
                        RStrip(key_paths[i], REGISTRY_PATH_SEPARATOR)

\* C25: _normalize_key_string removes the root label 'Computer' followed by
\* the separator only when it is the leading prefix of the path, and only
\* that one leading occurrence: the rest of the path, any later 'Computer\'
\* included, is returned unchanged, and a path that does not start with the
\* prefix is returned unchanged.
C25_OnlyLeadingLabelRemoved ==
    Returned =>
        \A i \in 1..Len(key_paths) :
            LET key    == key_paths[i]
                prefix == COMPUTER_ROOT_STR \o REGISTRY_PATH_SEPARATOR
            IN  normalize_key_string(key) =
                    IF StartsWith(key, prefix)
                    THEN SubSeq(key, Len(prefix) + 1, Len(key))
                    ELSE key

(***************************************************************************)
(* Properties of get_registry_tree, continued (specification Spec).        *)
(***************************************************************************)
\* the keys of tree t without their position in the sequence: path of
\* dictionary keys, name, is_explicit and values of every key
TreeContent(t) == {<<KeyPath(t, i), t[i].name, t[i].is_explicit, t[i].values>> : i \in 1..Len(t)}

\* _build_key_structure builds the reduced path p into an empty tree
BuildsAlone(p) ==
    build_key_structure(<<RegistryKey(COMPUTER_ROOT_STR)>>, registry, ignore_missing_keys, p).status
        = "built"

\* C7: get_registry_tree on the single abbreviated path of an existing key
\* returns, and its tree equals (RegistryKey equality) the tree returned for
\* the same path spelled with the full hive name.
C7_AbbreviatedPathBuildsSameTree ==
    (/\ CallEnded
     /\ Len(key_paths) = 1
     /\ IsRootKeyShort(Split(key_paths[1], REGISTRY_PATH_SEPARATOR)[1])
     /\ NamedKey(registry, key_paths[1]) # 0)
    =>
    LET first == Split(key_paths[1], REGISTRY_PATH_SEPARATOR)[1]
        rest  == SubSeq(key_paths[1], Len(first) + 1, Len(key_paths[1]))
    IN  /\ outcome = "returned"
        /\ \A r \in {get_registry_tree(registry, ignore_missing_keys,
                                       <<ROOT_KEY_SHORT(first) \o rest>>)} :
                /\ r.outcome = "returned"
                /\ RegistryKey_eq(tree, 1, r.t, 1)

RECURSIVE OnlyChildPaths(_, _, _, _)
\* the paths below path, which names registry key k, that are reached by
\* going from a key to its only child key; with valueless set, only through
\* keys that carry no values
OnlyChildPaths(reg, k, path, valueless) ==
    LET children == SubKeyIds(reg, k)
    IN  IF Len(children) = 1 /\ (valueless => reg[k].values = <<>>)
        THEN LET child == path \o REGISTRY_PATH_SEPARATOR \o reg[children[1]].name
             IN  {child} \cup OnlyChildPaths(reg, children[1], child, valueless)
        ELSE {}

\* the single requested path was returned and is compared with the paths of
\* its chain of only children
SamePathBelowOnlyChildren(valueless) ==
    (Returned /\ Len(key_paths) = 1 /\ NamedKey(registry, key_paths[1]) # 0) =>
        \A below \in OnlyChildPaths(registry, NamedKey(registry, key_paths[1]), key_paths[1],
                                    valueless) :
            \A r \in {get_registry_tree(registry, ignore_missing_keys, <<below>>)} :
                /\ r.outcome = "returned"
                /\ RegistryKey_eq(tree, 1, r.t, 1)

\* C9 as stated: when y is the only child key of x, get_registry_tree([x])
\* and get_registry_tree([x\y]) return equal trees, and so do the paths
\* further down a chain of only children.
C9_OnlyChildTreesEqual == SamePathBelowOnlyChildren(FALSE)

\* C9 amended: when y is the only child key of x and x carries no values,
\* get_registry_tree([x]) and get_registry_tree([x\y]) return equal trees
\* (RegistryKey equality), and so do a hive-only, a two-segment and a
\* three-segment path along a chain of only children in which every key
\* above the last carries no values.
C9_ValuelessOnlyChildTreesEqual == SamePathBelowOnlyChildren(TRUE)

\* C9 witness: the tree of a path that has two paths below it on a chain of
\* valueless only children was returned
C9_Witness ==
    /\ Returned
    /\ Len(key_paths) = 1
    /\ NamedKey(registry, key_paths[1]) # 0
    /\ Cardinality(OnlyChildPaths(registry, NamedKey(registry, key_paths[1]), key_paths[1],
                                  TRUE)) = 2

\* the list without every occurrence of path p
Without(paths, p) == SelectSeq(paths, LAMBDA q : q # p)

\* the requested path p is under a hive winreg knows, by name or abbreviation,
\* and names no key of the registry
IsMissingKeyPath(p) ==
    /\ NamedSegments(p)[1] \in HKEY_NAMES
    /\ NamedKey(registry, p) = 0

\* the ignore_missing_keys policy applied to the requested path p: with the
\* flag set the call ends as it ends for the list without p, no key has p's
\* path and no key was created for it; with the flag clear the call raises
\* and returns no tree
MissingKeyPolicyApplied(p) ==
    IF ignore_missing_keys
    THEN /\ expand_key_path(p) \notin built
         /\ \A k \in TreeKeyPaths : k[2] # LeafKeyPath(expand_key_path(p))
         /\ \A r \in {get_registry_tree(registry, TRUE, Without(key_paths, p))} :
                /\ outcome = r.outcome
                /\ outcome = "returned" => TreeContent(tree) = TreeContent(r.t)
    ELSE /\ outcome = "raised"
         /\ tree = <<>>

HasUnknownHive(p) ==
    LET prefix   == COMPUTER_ROOT_STR \o REGISTRY_PATH_SEPARATOR
        unrooted == IF StartsWith(p, prefix) THEN SubSeq(p, Len(prefix) + 1, Len(p)) ELSE p
        first    == Split(unrooted, REGISTRY_PATH_SEPARATOR)[1]
    IN  first \notin HKEY_NAMES /\ ~IsRootKeyShort(first)

\* C11: when the first segment of any requested path is neither a known
\* hive name nor a known abbreviation, get_registry_tree raises and returns
\* no tree, for both values of ignore_missing_keys and whatever the other
\* requested paths are.
C11_UnknownHiveFailsWholeList ==
    CallEnded =>
        ((\E i \in 1..Len(key_paths) : HasUnknownHive(key_paths[i]))
            => outcome = "raised" /\ tree = <<>>)

\* the store refuses a call made for the reduced path p: the key p names, a
\* key below it, or the key above it (opened to mirror the leaf) is one the
\* store refuses to open
RefusedFor(p) ==
    \E k \in {NamedKey(registry, p)} :
        /\ k # 0
        /\ \/ \E j \in StoreSubtree(registry, k) : AccessDenied(registry, j)
           \/ registry[k].parent # 0 /\ AccessDenied(registry, registry[k].parent)

\* every value operation on the key path raises RgEdtException
ValueOperationsRaise(reg, key) ==
    /\ get_registry_key_values(reg, key).exception = "RgEdtException"
    /\ \A value_name \in ValueNamePool :
          /\ get_registry_key_value(reg, key, value_name).exception = "RgEdtException"
          /\ delete_value(reg, key, value_name).exception = "RgEdtException"
          /\ \A td \in ValueDataPool :
                edit_registry_key_value(reg, key, value_name, td[1], td[2]).exception
                    = "RgEdtException"
    /\ \A name \in KeyNamePool : add_key(reg, key, name).exception = "RgEdtException"

\* C12: whenever the store refuses access to a key during get_registry_tree
\* or a value operation, the caller receives an error, for either value of
\* ignore_missing_keys and also when the refusal meets the existence probe
\* of a requested path.
C12_RefusalReachesCaller ==
    /\ CallEnded =>
          ((\E p \in reduced_key_paths : RefusedFor(p)) => outcome = "raised")
    /\ \A key \in DeniedPathPool :
          (\E k \in {NamedKey(registry, key)} : k # 0 /\ AccessDenied(registry, k))
              => ValueOperationsRaise(registry, key)
    /\ \A key \in DeniedPathPool :
          \A k \in {NamedKey(registry, key)} \ {0} :
              \A j \in {i \in 1..Len(registry) : registry[i].parent = k} :
                  (~AccessDenied(registry, k) /\ AccessDenied(registry, j))
                      => add_key(registry, key, registry[j].name).status = "raised"

\* the error of the store when the key the path names is opened: OSError
\* for a key that does not exist, PermissionError for one it refuses, "" if
\* it opens the key
OpenError(reg, key) ==
    LET k == NamedKey(reg, key)
    IN  IF k = 0 THEN "OSError" ELSE IF AccessDenied(reg, k) THEN "PermissionError" ELSE ""

\* the operation ended r raised RgEdtException from that cause
RaisedFrom(r, cause) ==
    r.status = "raised" /\ r.exception = "RgEdtException" /\ r.cause = cause

\* the failures of the store calls of the value operations other than
\* add_key's on the key path reach the caller: a key that cannot be opened,
\* a value that is not there
ValueFailuresPropagate(reg, key) ==
    \A err \in {OpenError(reg, key)} :
        /\ get_registry_key_values(reg, key).status = "raised" <=> err # ""
        /\ err # "" => RaisedFrom(get_registry_key_values(reg, key), err)
        /\ \A value_name \in ValueNamePool :
              \A missing \in {err = "" /\ FindValue(reg[NamedKey(reg, key)].values,
                                                    value_name) = 0} :
                  \A cause \in {IF missing THEN "FileNotFoundError" ELSE err} :
                      /\ get_registry_key_value(reg, key, value_name).status = "raised"
                            <=> cause # ""
                      /\ delete_value(reg, key, value_name).status = "raised" <=> cause # ""
                      /\ cause # "" =>
                            /\ RaisedFrom(get_registry_key_value(reg, key, value_name), cause)
                            /\ RaisedFrom(delete_value(reg, key, value_name), cause)
                      /\ err # "" =>
                            \A td \in ValueDataPool :
                                RaisedFrom(edit_registry_key_value(reg, key, value_name,
                                                                   td[1], td[2]), err)
        /\ err # "" => \A name \in KeyNamePool : RaisedFrom(add_key(reg, key, name), err)

\* add_key's probe, OpenKey(sub_key_handle, name), fails on the opened key
\* path: the key name is not there or the store refuses it
AddKeyProbeFails(reg, key, name) ==
    /\ OpenError(reg, key) = ""
    /\ OpenError(reg, key \o REGISTRY_PATH_SEPARATOR \o name) # ""

\* the existence probe of the reduced path p fails
ProbeFails(p) == OpenError(registry, p) # ""

\* a store call made for the reduced path p fails: its probe, or the
\* opening of a key below it while the subtree is mirrored
FailsFor(p) == ProbeFails(p) \/ RefusedFor(p)

Called(op) == call.op = op

\* the values the store enumerates directly under its key k, in its order
StoredValues(reg, k) ==
    [i \in 1..Len(reg[k].values) |->
        RegistryValue(EnumValue(reg, k, i - 1).name, EnumValue(reg, k, i - 1).data,
                      EnumValue(reg, k, i - 1).type)]

\* the operation raised RgEdtException
RaisedRgEdtException == result.status = "raised" /\ result.exception = "RgEdtException"

\* C13: get_registry_key_values(path) returns exactly the values stored
\* directly under the key at path, in the store's enumeration order (the
\* empty list for a key without values, a bare hive included), and raises
\* RgEdtException when the key does not exist.
C13_ValuesOfTheKeyAtPath ==
    Called("get_registry_key_values") =>
        \A k \in {NamedKey(result.prior, call.key)} :
            IF k = 0 THEN RaisedRgEdtException
            ELSE /\ result.status = "returned"
                 /\ result.value = StoredValues(result.prior, k)

\* data is data of the value type: a str for the string types, an int for
\* the integer types
SupportedData(type, data) ==
    \/ type \in StrTypes /\ data.kind = "str"
    \/ type \in IntTypes /\ data.kind = "int"

\* C15: for every existing key path, value name, supported value type and
\* data of that type, edit_registry_key_value(path, name, type, data) followed
\* by get_registry_key_value(path, name) returns data unchanged, for a new
\* value and for an overwritten one.
C15_EditThenGetReturnsData ==
    (/\ Called("edit_registry_key_value")
     /\ NamedKey(result.prior, call.key) # 0
     /\ SupportedData(call.type, call.data))
    => /\ result.status = "returned"
       /\ \A r \in {get_registry_key_value(registry, call.key, call.name)} :
             r.status = "returned" /\ r.value = call.data

\* the store's keys directly under its key k
StoreChildren(reg, k) == {j \in 1..Len(reg) : reg[j].parent = k}

\* C16: add_key(path, name) for a name that already exists under path,
\* compared without regard to case, raises the 'already exists'
\* RgEdtException and leaves the store unchanged.
C16_ExistingNameRaisesAlreadyExists ==
    Called("add_key") =>
        \A k \in {NamedKey(result.prior, call.key)} \ {0} :
            (\E j \in StoreChildren(result.prior, k) :
                    Lower(result.prior[j].name) = Lower(call.name))
            => /\ RaisedRgEdtException
               /\ result.message = "already exists"
               /\ registry = result.prior

\* the key path of the child name of the key path
ChildPath(key, name) == key \o REGISTRY_PATH_SEPARATOR \o name

\* on the store reg the key path\name exists without subkeys and values, a
\* value written to it is read back, and add_key(path, name) raises
\* 'already exists'
AddedKeyIsThere(reg, key, name) ==
    /\ \A k \in {NamedKey(reg, ChildPath(key, name))} :
          /\ k # 0
          /\ StoreChildren(reg, k) = {}
          /\ reg[k].values = <<>>
    /\ \A value_name \in ValueNamePool, td \in ValueDataPool :
          SupportedData(td[1], td[2]) =>
              \A e \in {edit_registry_key_value(reg, ChildPath(key, name), value_name,
                                                 td[1], td[2])} :
                  /\ e.status = "returned"
                  /\ \A g \in {get_registry_key_value(e.reg, ChildPath(key, name),
                                                      value_name)} :
                        g.status = "returned" /\ g.value = td[2]
    /\ \A a \in {add_key(reg, key, name)} :
          a.status = "raised" /\ a.message = "already exists"

\* C17: after add_key(path, name) succeeds for an existing path and a name
\* not yet present under it, the key path\name exists with no subkeys and no
\* values, a following edit_registry_key_value on it succeeds and
\* get_registry_key_value returns the written data, and a second
\* add_key(path, name) raises 'already exists'; add_key on a path that does
\* not exist raises RgEdtException and creates nothing.
C17_AddedKeyExistsEmpty ==
    Called("add_key") =>
        \A k \in {NamedKey(result.prior, call.key)} :
            IF k = 0 THEN RaisedRgEdtException /\ registry = result.prior
            ELSE (/\ result.status = "returned"
                  /\ \A j \in StoreChildren(result.prior, k) :
                        Lower(result.prior[j].name) # Lower(call.name))
                 => AddedKeyIsThere(registry, call.key, call.name)

\* C19: after delete_value(path, name) returns normally for a value that
\* existed under path, get_registry_key_value(path, name) raises
\* RgEdtException, get_registry_key_values(path) no longer lists that name,
\* and every other value and key in the store is unchanged; delete_value on
\* a missing key or a missing value raises RgEdtException.
C19_DeletedValueIsGone ==
    Called("delete_value") =>
        \A k \in {NamedKey(result.prior, call.key)} :
            IF k = 0 \/ FindValue(result.prior[k].values, call.name) = 0
            THEN RaisedRgEdtException
            ELSE /\ result.status = "returned"
                 /\ registry = [result.prior EXCEPT
                        ![k].values = RemoveAt(@, FindValue(@, call.name))]
                 /\ \A g \in {get_registry_key_value(registry, call.key, call.name)} :
                        g.status = "raised" /\ g.exception = "RgEdtException"
                 /\ \A v \in {get_registry_key_values(registry, call.key)} :
                        /\ v.status = "returned"
                        /\ \A i \in 1..Len(v.value) : v.value[i].name # call.name

(***************************************************************************)
(* Key paths that differ in letter case (specification SpecCase).          *)
(***************************************************************************)
RECURSIVE FindPathIgnoringCase(_, _, _)
\* the registry key reached from key h along names, compared ignoring case
FindPathIgnoringCase(reg, h, names) ==
    IF names = <<>> THEN h
    ELSE LET next == {j \in 1..Len(reg) :
                         reg[j].parent = h /\ Lower(reg[j].name) = Lower(Head(names))}
         IN  IF next = {} THEN 0
             ELSE FindPathIgnoringCase(reg, CHOOSE j \in next : TRUE, Tail(names))

\* the registry key a requested path names when names are compared ignoring
\* case, 0 if there is none
NamedKeyIgnoringCase(reg, path) == FindPathIgnoringCase(reg, 0, NamedSegments(path))

\* paths p and q name the same registry key, or p a key and q one of its
\* descendants, and they differ in letter case where they overlap
OverlapInAnotherCase(p, q) ==
    LET ep == expand_key_path(p)
        eq == expand_key_path(q)
    IN  /\ NamedKeyIgnoringCase(registry, p) # 0
        /\ NamedKeyIgnoringCase(registry, q) \in
               StoreSubtree(registry, NamedKeyIgnoringCase(registry, p))
        /\ \/ Lower(eq) = Lower(ep)
           \/ StartsWith(Lower(eq), Lower(ep) \o REGISTRY_PATH_SEPARATOR)
        /\ ~(eq = ep \/ StartsWith(eq, ep \o REGISTRY_PATH_SEPARATOR))

\* C26: when two requested paths name the same store key, or a key and one
\* of its descendants, but differ in letter case, both survive the
\* reduction, get_registry_tree returns, and its tree equals the tree it
\* returns for the broader of the two paths alone; merging a path whose
\* subtree is already in the tree leaves the tree as it is.
C26_PathsInAnotherCaseMerge ==
    CallEnded =>
        /\ \A i, j \in 1..Len(key_paths) :
               OverlapInAnotherCase(key_paths[i], key_paths[j]) =>
                   /\ {expand_key_path(key_paths[i]), expand_key_path(key_paths[j])}
                          \subseteq reduced_key_paths
                   /\ Len(key_paths) = 2 =>
                          /\ outcome = "returned"
                          /\ \A r \in {get_registry_tree(registry, ignore_missing_keys,
                                                         <<key_paths[i]>>)} :
                                 /\ r.outcome = "returned"
                                 /\ RegistryKey_eq(tree, 1, r.t, 1)
        /\ outcome = "returned" =>
               \A p \in built :
                   \A r \in {build_key_structure(tree, registry, ignore_missing_keys, p)} :
                       r.status = "built" /\ TreeContent(r.t) = TreeContent(tree)

(***************************************************************************)
(* Handles (specification SpecHandles).                                    *)
(***************************************************************************)
\* C22: every store handle opened by get_registry_tree or a value operation
\* is closed again on every exit path, normal or by exception: when the
\* operation has ended no handle it opened is open, and no handle opened
\* while building one requested path is open when the next is started.
C22_EveryHandleClosed ==
    /\ pc = "idle" => open_handles = 0
    /\ pc = "for" => open_handles = 0

\* the reduced paths that name a key of the registry
PathsOfPresentKeys == {p \in reduced_key_paths : NamedKey(registry, p) # 0}

\* C30: with ignore_missing_keys = true, get_registry_tree does not fail
\* because a requested key is missing, even when another process deletes a
\* requested key, one of its subkeys or one of its ancestors after the
\* existence probe succeeded: the call returns, and every requested path
\* whose key is still in the registry is built.
C30_DeletedAfterProbeIsSkipped ==
    (ignore_missing_keys /\ CallEnded) =>
        /\ outcome = "returned"
        /\ PathsOfPresentKeys \subseteq built

(***************************************************************************)
(* The children and values of a RegistryKey.                               *)
(***************************************************************************)
\* the keys of tree t held by key self as children
ChildrenOf(t, self) == {i \in 1..Len(t) : t[i].parent = self}

\* key self of tree t holds a child of this name, compared ignoring case
HoldsChildNamed(t, self, name) == \E i \in ChildrenOf(t, self) : Lower(t[i].name) = Lower(name)

\* key self of tree t holds a value of this name, compared ignoring case
HoldsValueNamed(t, self, name) ==
    \E i \in 1..Len(t[self].values) : Lower(t[self].values[i].value.name) = Lower(name)

\* no key of tree t holds two children or two values of names equal ignoring case
NoCaseDuplicates(t) ==
    \A self \in 1..Len(t) :
        /\ \A i, j \in ChildrenOf(t, self) : Lower(t[i].name) = Lower(t[j].name) => i = j
        /\ \A i, j \in 1..Len(t[self].values) :
               Lower(t[self].values[i].value.name) = Lower(t[self].values[j].value.name) => i = j

\* C20: after any sequence of get_sub_key(create_if_missing = true),
\* _add_sub_key and add_value calls, no key holds two children or two values
\* whose names are equal ignoring case: get_sub_key returns the existing
\* child for a name that differs only in case, and adding a child or value
\* whose lower-cased name is already present raises an error and leaves the
\* existing children and values unchanged.
C20_NoTwoNamesEqualIgnoringCase ==
    /\ NoCaseDuplicates(tree)
    /\ (Called("get_sub_key") /\ HoldsChildNamed(result.prior, result.value[1], call.name)) =>
           /\ result.status = "returned"
           /\ result.value[2] \in ChildrenOf(result.prior, result.value[1])
           /\ Lower(result.prior[result.value[2]].name) = Lower(call.name)
           /\ tree = result.prior
    /\ (Called("get_sub_key") /\ ~HoldsChildNamed(result.prior, result.value[1], call.name)) =>
           /\ result.status = "returned"
           /\ result.value[2] = Len(tree)
           /\ tree = Append(result.prior,
                  [RegistryKey(call.name) EXCEPT !.parent = result.value[1],
                                                 !.key = Lower(call.name)])
    /\ (Called("_add_sub_key") /\ HoldsChildNamed(result.prior, result.value[1], call.name)) =>
           /\ result.status = "raised"
           /\ result.exception = "RuntimeError"
           /\ tree = result.prior
    /\ (Called("add_value") /\ HoldsValueNamed(result.prior, result.value[1], call.name)) =>
           /\ result.status = "raised"
           /\ result.exception = "RuntimeError"
           /\ tree = result.prior

\* C20 witness: in a tree that holds a value, a key that holds a child
\* refused a second child whose name differs from the first only in case
C20_Witness ==
    /\ Called("_add_sub_key")
    /\ result.status = "raised"
    /\ \E i \in ChildrenOf(tree, result.value[1]) :
          Lower(tree[i].name) = Lower(call.name) /\ tree[i].name # call.name
    /\ \E s \in 1..Len(tree) : Len(tree[s].values) > 0

Handling(op) == call.op = op

\* the registry key a callback opens for the path it is given, 0 if none
OpenedKey(reg, path) == IF open_key(reg, path).ok THEN open_key(reg, path).h ELSE 0

\* the index of the value of that name under key k of the registry, 0 if none
StoredAt(reg, k, name) == IF k = 0 THEN 0 ELSE FindValue(reg[k].values, name)

\* C21: when a value is added with no data given (cb_add_value with the
\* empty string as new_value), the data written to the store is the
\* default of the value's type, as Model.get_default_value gives it: the
\* empty string for REG_SZ, 0 for REG_DWORD.
C21_AddedValueHoldsDefault ==
    (Handling("cb_add_value") /\ call.data = PyStr("") /\ registry # result.prior) =>
        LET k == OpenedKey(registry, call.key)
            i == StoredAt(registry, k, call.name)
        IN  /\ i # 0
            /\ registry[k].values[i].data = get_default_value(call.type).v

\* the displayed key tree as a set: the path of every item and whether it
\* is tagged explicit
ItemsShown(items) ==
    {<<RegistryKeyItem_path(items, id), items[id].explicit>> : id \in 1..Len(items)}

\* the key tree a wholesale rebuild from the registry would show now
RebuiltNow ==
    LET t == get_registry_tree(registry, ignore_missing_keys, key_list)
    IN  IF t.outcome = "returned" THEN set_registry_keys(t.t) ELSE <<>>

\* C23 as claimed: after every filter-list change (SET_KEY_LIST) and after
\* every explicit refresh request (REFRESH) the key tree shown is the one
\* get_registry_tree builds from the store for the current key list.
C23_TreeRebuiltOnListChangeAndRefresh ==
    ((Handling("cb_set_key_list") \/ (Handling("cb_refresh") /\ call.key # ""))
        /\ result.status = "returned") =>
        ItemsShown(keys_tree) = ItemsShown(RebuiltNow)

\* C23: a filter-list change (SET_KEY_LIST) empties the key tree shown and
\* rebuilds it wholesale from what get_registry_tree returns for the new
\* key list (it stays empty if that tree has no key below the root or if
\* get_registry_tree raises); a refresh request (REFRESH) leaves the key
\* tree as it is; adding a key inserts one item under the selected item;
\* no other event changes the key tree.
C23_TreeRebuiltOnListChangeOnly ==
    [][call'.n # call.n =>
          IF call'.op = "cb_set_key_list"
          THEN \E t \in {get_registry_tree(registry', ignore_missing_keys', key_list')} :
                   keys_tree' = IF t.outcome = "returned" /\ SubKeysOf(t.t, 1) # {}
                                THEN build_registry_tree(t.t, 1, 0, <<>>) ELSE <<>>
          ELSE IF call'.op = "cb_add_key" /\ result'.status = "returned"
          THEN keys_tree' = Append(keys_tree, KeyItem(selection, call'.name, TRUE))
          ELSE keys_tree' = keys_tree]_vars

\* a refresh has left a key tree on display that a rebuild would not give
C23_Witness ==
    /\ Handling("cb_refresh")
    /\ call.key # ""
    /\ result.status = "returned"
    /\ ItemsShown(keys_tree) # ItemsShown(RebuiltNow)

SelectedImplicit == selection # 0 /\ ~keys_tree[selection].explicit

\* C27: while the selected key is implicit (an ancestor outside the
\* configured key list, or the root Computer), the details area is empty
\* and no event has read, written or deleted a value in the store for it.
C27_ImplicitKeyIsNeverShown ==
    SelectedImplicit =>
        /\ details = <<>>
        /\ result.store_calls = <<>>

\* the events the view components look up in the callbacks table
DispatchedEvents ==
    {"KEY_SELECTED", "SHOW_EDIT_VALUE", "EDIT_VALUE", "ADD_KEY", "ADD_VALUE", "DELETE_VALUE",
     "REFRESH", "SET_STATUS", "SHOW_ERROR", "CONFIGURE_KEY_LIST", "SET_KEY_LIST"}

\* C28: every event the view components dispatch has a callback registered
\* by Application, so that the request to edit a displayed value raises
\* nothing and the edit dialog opens.
C28_EveryDispatchedEventIsRegistered ==
    (Handling("_popup_edit_value_window") /\ call.type # "") =>
        /\ DispatchedEvents \subseteq Application_callbacks
        /\ error = ""

\* C29: cb_add_value never overwrites a value: if a value of the name is
\* under the key, it returns False, says 'Value already exists' and leaves
\* the store as it is; it writes, and returns True, only if no value of
\* that name is under the key.
C29_AddNeverOverwrites ==
    (Handling("cb_add_value") /\ OpenedKey(result.prior, call.key) # 0) =>
        LET existed == StoredAt(result.prior, OpenedKey(result.prior, call.key),
                                call.name) # 0
        IN  /\ existed =>
                /\ result.value = <<FALSE>>
                /\ status = "Value already exists"
                /\ registry = result.prior
            /\ (registry # result.prior \/ result.value = <<TRUE>>) => ~existed

====
